---- MODULE Spec2Model ----
(***************************************************************************)
(* Verification model of ncatbot.                                          *)
(*                                                                         *)
(* Part 1: MessageRouter (core/service/builtin/message_router.py), the     *)
(*         request/response correlator over one WebSocket.                 *)
(* Part 2: RBACService (core/service/builtin/rbac/service.py).             *)
(* Part 3: PluginLoader and BasePlugin (plugin_system/loader/core.py,      *)
(*         plugin_system/base_plugin.py) with the event bus and the        *)
(*         command registry they drive, the plugin config file and         *)
(*         unload_all.                                                     *)
(* Part 4: UnifiedRegistryService and CommandRunner                        *)
(*         (core/service/builtin/unified_registry): the lazy build of the  *)
(*         command index and the dispatch of one message.                  *)
(* Part 5: LifecycleManager.run_backend (core/client/lifecycle.py): the    *)
(*         calling thread, the worker thread that runs start(), and the    *)
(*         lock between them.                                              *)
(* Part 6: ConfigManager.fix_invalid_config and the token checks of        *)
(*         NapCatConfig (utils/config).                                    *)
(* Part 7: TimeTaskScheduler and TimeTaskMixin                             *)
(*         (plugin_system/builtin_mixin/time_task_mixin.py) and            *)
(*         TaskExecutor (core/service/builtin/time_task/executor.py).      *)
(* Part 8: LifecycleManager.start and bot_exit (core/client/lifecycle.py)  *)
(*         over the plugin loader of part 3.                               *)
(* Part 9: UnifiedRegistryService.handle_message_event and                 *)
(*         _execute_function: the user functions that one message runs.    *)
(*                                                                         *)
(* The router runs on one asyncio event loop: the code between two awaits  *)
(* is one atomic action.  A task that awaits a future is resumed through   *)
(* the loop's FIFO ready queue (variable ready).                           *)
(***************************************************************************)
EXTENDS Integers, Sequences, FiniteSets, TLC

(* ------------------------------ bounds --------------------------------- *)
\* number of send() invocations explored
MaxSends == 3
\* number of event frames (frames without echo) the gateway pushes
MaxEvents == 1

Calls == 1..MaxSends
\* an echo is a fresh uuid4; echo 0 stands for "frame carries no echo"
Echoes == 1..MaxSends
NoEcho == 0
NoFuture == 0

\* roles and users that the RBAC calls are drawn from
NumRoles == 3
NumUsers == 1
\* roles of the runs that only edit the role graph
NumGraphRoles == 4
\* total number of white-list and black-list entries granted
MaxGrants == 2

Roles == 1..NumRoles
GraphRoles == 1..NumGraphRoles
Users == 1..NumUsers
NoRole == 0
\* permission patterns that are granted, and paths that are queried
Patterns == {<<"a", "*">>}
Paths == {<<"a", "b">>, <<"b", "b">>}

\* plugin instances constructed by the loader
MaxInst == 3
\* subscriptions made on the event bus
MaxHandlers == 2

\* plugin names, instances (NoInst stands for None) and subscription ids
Names == {"A", "B", "C"}
Insts == 1..MaxInst
NoInst == 0
HandlerIds == 1..MaxHandlers

\* plugin.config is a dict: {} or {"k": v} with v an int or a str, written
\* <<type, lexical form>>
EmptyConfig == <<>>
ConfigValues == {EmptyConfig, <<"int", "1">>, <<"str", "1">>}
\* command prefixes, as sequences of characters: "", "/" and "//"
PrefixPool == {<<>>, <<"/">>, <<"/", "/">>}
\* prefixes listed by the command registries
MaxPrefixes == 3
\* messages handed to the dispatch
MaxMessages == 2
\* plugins whose command is registered by a decorator
CommandOwners == {"B"}

\* startup events the gateway sends while the bot listens
MaxStartups == 2
\* bot_exit calls
MaxExits == 2
\* user functions registered for a message: one command at most, filters
MaxFuncs == 3
\* what a user function does with the message: its filters reject it, its
\* filters raise, it returns, it raises
Outcomes == {"rejected", "filter_raises", "returns", "raises"}

\* tries that fix_invalid_config gives the user to type a QQ number
UinTries == 3
\* length below which strong_password_check rejects a password
MinPasswordLength == 12
\* length of a generated password
GeneratedLength == 16

\* names of scheduled tasks
TaskNames == {"t1", "t2"}
\* max_runs is None
NoMaxRuns == -1
\* values of max_runs handed to add_scheduled_task
MaxRunsPool == {NoMaxRuns, 0, 1, 2}
\* add_scheduled_task calls of one plugin instance
MaxTaskAdds == 2
\* plugin instances that schedule tasks
MaxTaskInst == 2
\* runs of a due job
MaxTicks == 3

\* no instance of the plugin has been unloaded yet
NoConfig == <<"none">>
\* plugin.data_file does not exist
NoFile == <<"absent">>

VARIABLES
    \* ---- MessageRouter ----
    svc,              \* position of on_load / on_close
    ws,               \* self._ws is not None
    wsConnected,      \* NapCatWebSocket.connected
    listening,        \* the receive loop of the socket is running
    event_callback,   \* self._event_callback is not None
    pending_futures,  \* self._pending_futures: echo -> future (call id) or NoFuture
    nextEcho,         \* source of fresh echo ids (uuid4)
    pc,               \* position of each send() invocation
    echo,             \* local variable echo of each send()
    fut,              \* state of the local future of each send()
    futResult,        \* echo of the frame stored by set_result
    timedOut,         \* the wait_for timer of the call has expired
    outcome,          \* how the call ended
    result,           \* echo of the frame the call returned
    ready,            \* event loop ready queue: calls to be resumed, FIFO
    wire,             \* echoes of the frames written to the socket
    answered,         \* echoes the gateway has answered
    evCount,          \* event frames received so far
    cbSpawned,        \* callback tasks created by create_task
    cbDone,           \* callback tasks finished
    handed,           \* echoes of the frames handed to the event callback
    arrived,          \* responses delivered to a completion slot, in order
    returned,         \* calls that returned a response, in order
    \* ---- RBACService ----
    default_role,     \* self._default_role (NoRole stands for None)
    roles,            \* self._roles: role -> [whitelist, blacklist]
    users,            \* self._users: user -> [whitelist, blacklist, roles]
    role_users,       \* self._role_users: role -> set of users
    role_inheritance, \* self._role_inheritance as pairs <<role, parent>>
    permissions,      \* paths stored in self._permissions
    cache,            \* lru_cache of _get_effective_permissions: user -> perms
    ret,              \* outcome of the last RBAC call
    \* ---- PluginLoader, BasePlugin, event bus, command registry ----
    plugins,          \* PluginLoader.plugins: name -> instance or NoInst
    nextInst,         \* instances constructed so far
    inst_name,        \* plugin.name of each instance
    inst_state,       \* position of __onload__ of each instance
    closing,          \* instances whose __unload__ is awaiting on_close
    unloaded,         \* instances whose unload_plugin call has ended
    handlers_id,      \* plugin._handlers_id of each instance
    bus,              \* subscription ids live on the event bus
    nextHandler,      \* subscription ids handed out so far (uuid)
    unsubscribed,     \* ids that unregister_handler has unsubscribed
    invoked,          \* handlers invoked by the latest publish
    commands,         \* plugin names that own command specs in the registry
    func_plugin_map,  \* _func_plugin_map: command of a plugin -> instance
    replied,          \* instance whose handler ran for the latest command
    batch,            \* the latest load_all_plugins_by_class call
    config,           \* plugin.config of each instance
    data_file,        \* text of <workspace>/<name>.yaml of each plugin
    first_load,       \* plugin.first_load of each instance
    close_raised,     \* instances whose on_close hook raised (logged)
    held,             \* config the latest unloaded instance of a plugin held
    plugin_order,     \* key order of the dict PluginLoader.plugins
    unload_all,       \* the latest unload_all call
    \* ---- UnifiedRegistryService, CommandRunner ----
    reg_prefixes,     \* prefixes of command_registry.command_registries
    initialized,      \* self._initialized
    prefixes,         \* self.prefixes
    index,            \* commands in the index of self._resolver
    init_result,      \* outcome of the latest build of the index
    delivered,        \* messages dispatched so far
    dispatch,         \* what the dispatch of the latest message did
    \* ---- LifecycleManager.run_backend ----
    main,             \* position of the thread that called run_backend
    worker,           \* position of the thread that runs start()
    lock,             \* self.lock: "none", "locked" or "unlocked"
    crash_flag,       \* self.crash_flag
    api,              \* self.api is not None
    mock_mode,        \* self._mock_mode
    signals,          \* startup events handled so far
    returned_api,     \* run_backend returned a handle that is not None
    \* ---- ConfigManager, NapCatConfig ----
    ws_listen_ip,     \* napcat.ws_listen_ip
    ws_token,         \* napcat.ws_token, a sequence of characters
    webui_token,      \* napcat.webui_token
    enable_webui,     \* napcat.enable_webui
    bt_uin,           \* config.bt_uin
    validation,       \* position and outcome of the validation of the config
    consent,          \* the user answered yes to the token prompt
    generated,        \* fix_security_issues has replaced the tokens
    \* ---- TimeTaskScheduler, TimeTaskMixin ----
    jobs,             \* TimeTaskScheduler._jobs, in the order of add_job
    time_task_jobs,   \* plugin._time_task_jobs of each instance
    ticks,            \* runs of a due job so far
    last_tick,        \* what the latest run of a due job did
    \* ---- LifecycleManager.start, bot_exit ----
    running,          \* self._running
    status_exit,      \* status.exit
    exit_calls,       \* bot_exit calls so far
    shutdowns,        \* bot_exit calls that ran close_all and unload_all
    \* ---- handle_message_event, _execute_function ----
    functions,        \* the command hit by the message, the function filters
    handling,         \* position of handle_message_event
    cursor,           \* position of the loop of run_pure_filters
    called,           \* functions whose body has been entered
    logged            \* functions whose exception has been logged

routerVars == <<svc, ws, wsConnected, listening, event_callback,
                pending_futures, nextEcho, pc, echo, fut, futResult,
                timedOut, outcome, result, ready, wire, answered, evCount,
                cbSpawned, cbDone, handed, arrived, returned>>

rbacState == <<default_role, roles, users, role_users, role_inheritance,
               permissions>>

rbacVars == <<rbacState, cache, ret>>

pluginVars == <<plugins, nextInst, inst_name, inst_state, closing, unloaded,
                handlers_id, bus, nextHandler, unsubscribed, invoked,
                commands, func_plugin_map, replied, batch, config,
                data_file, first_load, close_raised, held, plugin_order,
                unload_all>>

\* the config file, the on_close outcome and unload_all
lifeVars == <<config, data_file, first_load, close_raised, held,
              plugin_order, unload_all>>

registryVars == <<reg_prefixes, initialized, prefixes, index, init_result,
                  delivered, dispatch>>

backendVars == <<main, worker, lock, crash_flag, api, mock_mode, signals,
                 returned_api>>

configVars == <<ws_listen_ip, ws_token, webui_token, enable_webui, bt_uin,
                validation, consent, generated>>

taskVars == <<jobs, time_task_jobs, ticks, last_tick>>

exitVars == <<running, status_exit, exit_calls, shutdowns>>

executeVars == <<functions, handling, cursor, called, logged>>

\* what an action of one component leaves alone
outsideRouter == <<rbacVars, pluginVars, registryVars, backendVars,
                   configVars, taskVars, exitVars, executeVars>>
outsideRBAC == <<routerVars, pluginVars, registryVars, backendVars,
                 configVars, taskVars, exitVars, executeVars>>
outsidePlugins == <<routerVars, rbacVars, registryVars, backendVars,
                    configVars, taskVars, exitVars, executeVars>>
outsideRegistry == <<routerVars, rbacVars, backendVars, configVars,
                     taskVars, exitVars, executeVars>>
outsideBackend == <<routerVars, rbacVars, pluginVars, registryVars,
                    configVars, taskVars, exitVars, executeVars>>
outsideConfig == <<routerVars, rbacVars, pluginVars, registryVars,
                   backendVars, taskVars, exitVars, executeVars>>
outsideTasks == <<routerVars, rbacVars, pluginVars, registryVars,
                  backendVars, configVars, exitVars, executeVars>>

vars == <<routerVars, rbacVars, pluginVars, registryVars, backendVars,
          configVars, taskVars, exitVars, executeVars>>

(* ----------------------------- MessageRouter --------------------------- *)

RouterInit ==
    /\ svc = "new"
    /\ ws = FALSE
    /\ wsConnected = FALSE
    /\ listening = FALSE
    /\ event_callback = FALSE
    /\ pending_futures = [e \in Echoes |-> NoFuture]
    /\ nextEcho = 1
    /\ pc = [c \in Calls |-> "idle"]
    /\ echo = [c \in Calls |-> NoEcho]
    /\ fut = [c \in Calls |-> "none"]
    /\ futResult = [c \in Calls |-> NoEcho]
    /\ timedOut = [c \in Calls |-> FALSE]
    /\ outcome = [c \in Calls |-> "none"]
    /\ result = [c \in Calls |-> NoEcho]
    /\ ready = <<>>
    /\ wire = {}
    /\ answered = {}
    /\ evCount = 0
    /\ cbSpawned = 0
    /\ cbDone = 0
    /\ handed = {}
    /\ arrived = <<>>
    /\ returned = <<>>

\* self._pending_futures[echo] = future
Register(tbl, e, c) == [tbl EXCEPT ![e] = c]

\* mutant: the "finally" clause is missing
PopNothing(tbl, e) == tbl

\* self._pending_futures.pop(echo, None)
Pop(tbl, e) == [tbl EXCEPT ![e] = NoFuture]

\* self._pending_futures.clear()
Clear(tbl) == [e \in Echoes |-> NoFuture]

\* mutant: responses are matched in arrival order, to the oldest request
GetOldest(tbl, e) ==
    IF \E x \in Echoes : tbl[x] # NoFuture
    THEN tbl[CHOOSE x \in Echoes :
                /\ tbl[x] # NoFuture
                /\ \A y \in Echoes : tbl[y] # NoFuture => x <= y]
    ELSE NoFuture

\* self._pending_futures.get(echo)
Get(tbl, e) == IF e \in Echoes THEN tbl[e] ELSE NoFuture

\* mutant: on_close only clears the table
CancelNone(tbl, f) == f

\* for future in values(): if not future.done(): future.cancel()
CancelAll(tbl, f) ==
    [c \in Calls |->
        IF (\E e \in Echoes : tbl[e] = c) /\ f[c] = "pending"
        THEN "cancelled" ELSE f[c]]

\* calls whose awaited future was cancelled by CancelAll get a wake-up each,
\* in the iteration order of the dict (insertion order = echo order here)
RECURSIVE CancelledWakeups(_, _, _)
CancelledWakeups(tbl, f, e) ==
    IF e > MaxSends THEN <<>>
    ELSE LET c == tbl[e]
             rest == CancelledWakeups(tbl, f, e + 1)
         IN IF c # NoFuture /\ f[c] = "pending" /\ pc[c] = "waiting"
            THEN <<c>> \o rest ELSE rest

\* NapCatWebSocket.send accepts a frame only on a ready socket
WsReady == wsConnected

\* on_load, up to the await of connect()
on_load_begin ==
    /\ svc = "new"
    /\ svc' = "connecting"
    /\ ws' = TRUE
    /\ UNCHANGED outsideRouter
    /\ UNCHANGED <<wsConnected, listening, event_callback, pending_futures,
                   nextEcho, pc, echo, fut, futResult, timedOut, outcome,
                   result, ready, wire, answered, evCount, cbSpawned, cbDone,
                   handed, arrived, returned>>

\* connect() returns: the service is loaded
on_load_connected ==
    /\ svc = "connecting"
    /\ svc' = "loaded"
    /\ wsConnected' = TRUE
    /\ UNCHANGED outsideRouter
    /\ UNCHANGED <<ws, listening, event_callback, pending_futures,
                   nextEcho, pc, echo, fut, futResult, timedOut, outcome,
                   result, ready, wire, answered, evCount, cbSpawned, cbDone,
                   handed, arrived, returned>>

\* connect() raises: self._ws stays set, the socket is not connected
on_load_failed ==
    /\ svc = "connecting"
    /\ svc' = "failed"
    /\ UNCHANGED outsideRouter
    /\ UNCHANGED <<ws, wsConnected, listening, event_callback,
                   pending_futures, nextEcho, pc, echo, fut, futResult,
                   timedOut, outcome, result, ready, wire, answered, evCount,
                   cbSpawned, cbDone, handed, arrived, returned>>

\* LifecycleManager._async_start after load_all: set_event_callback, listen()
start_listening ==
    /\ svc = "loaded"
    /\ ~listening
    /\ event_callback' = TRUE
    /\ listening' = TRUE
    /\ UNCHANGED outsideRouter
    /\ UNCHANGED <<svc, ws, wsConnected, pending_futures, nextEcho, pc, echo,
                   fut, futResult, timedOut, outcome, result, ready, wire,
                   answered, evCount, cbSpawned, cbDone, handed, arrived,
                   returned>>

\* on_close, up to the await of disconnect(): cancel and clear, then the
\* socket starts closing
on_close_begin ==
    /\ svc \in {"loaded", "failed"}
    /\ svc' = "closing"
    /\ fut' = CancelAll(pending_futures, fut)
    /\ ready' = ready \o CancelledWakeups(pending_futures, fut, 1)
    /\ pending_futures' = Clear(pending_futures)
    /\ wsConnected' = FALSE
    /\ listening' = FALSE
    /\ UNCHANGED outsideRouter
    /\ UNCHANGED <<ws, event_callback, nextEcho, pc, echo, futResult,
                   timedOut, outcome, result, wire, answered, evCount,
                   cbSpawned, cbDone, handed, arrived, returned>>

\* disconnect() returns: self._ws = None
on_close_end ==
    /\ svc = "closing"
    /\ svc' = "closed"
    /\ ws' = FALSE
    /\ UNCHANGED outsideRouter
    /\ UNCHANGED <<wsConnected, listening, event_callback, pending_futures,
                   nextEcho, pc, echo, fut, futResult, timedOut, outcome,
                   result, ready, wire, answered, evCount, cbSpawned, cbDone,
                   handed, arrived, returned>>

\* send(): from the call to the first await.
\*   not self._ws           -> ConnectionError, nothing registered
\*   socket not ready       -> registered, _ws.send raises, finally pops
\*   otherwise              -> registered, the write is in progress
send_start(c) ==
    /\ pc[c] = "idle"
    /\ \A d \in Calls : d < c => pc[d] # "idle"
    /\ IF ~ws
       THEN /\ pc' = [pc EXCEPT ![c] = "done"]
            /\ outcome' = [outcome EXCEPT ![c] = "not_connected"]
            /\ UNCHANGED <<nextEcho, echo, fut, pending_futures>>
       ELSE /\ nextEcho' = nextEcho + 1
            /\ echo' = [echo EXCEPT ![c] = nextEcho]
            /\ fut' = [fut EXCEPT ![c] = "pending"]
            /\ IF WsReady
               THEN /\ pending_futures' = Register(pending_futures, nextEcho, c)
                    /\ pc' = [pc EXCEPT ![c] = "writing"]
                    /\ UNCHANGED outcome
               ELSE /\ pending_futures' =
                          Pop(Register(pending_futures, nextEcho, c), nextEcho)
                    /\ pc' = [pc EXCEPT ![c] = "done"]
                    /\ outcome' = [outcome EXCEPT ![c] = "not_connected"]
    /\ UNCHANGED outsideRouter
    /\ UNCHANGED <<svc, ws, wsConnected, listening, event_callback, futResult,
                   timedOut, result, ready, wire, answered, evCount,
                   cbSpawned, cbDone, handed, arrived, returned>>

\* mutant: one lock is held from the write until the response
CanWriteLocked(c) ==
    pc[c] = "writing" /\ \A d \in Calls : pc[d] # "waiting"

\* await self._ws.send(...): a write waits for no other call's response
CanWrite(c) == pc[c] = "writing"

\* the write of the frame completes (or fails because the socket was closed
\* meanwhile), then wait_for(future) starts; a future that close() has
\* cancelled already raises CancelledError at once
send_write(c) ==
    /\ CanWrite(c)
    /\ IF ~WsReady
       THEN /\ pending_futures' = Pop(pending_futures, echo[c])
            /\ pc' = [pc EXCEPT ![c] = "done"]
            /\ outcome' = [outcome EXCEPT ![c] = "not_connected"]
            /\ UNCHANGED wire
       ELSE /\ wire' = wire \cup {echo[c]}
            /\ IF fut[c] = "cancelled"
               THEN /\ pending_futures' = Pop(pending_futures, echo[c])
                    /\ pc' = [pc EXCEPT ![c] = "done"]
                    /\ outcome' = [outcome EXCEPT ![c] = "cancelled"]
               ELSE /\ pc' = [pc EXCEPT ![c] = "waiting"]
                    /\ UNCHANGED <<pending_futures, outcome>>
    /\ UNCHANGED outsideRouter
    /\ UNCHANGED <<svc, ws, wsConnected, listening, event_callback, nextEcho,
                   echo, fut, futResult, timedOut, result, ready, answered,
                   evCount, cbSpawned, cbDone, handed, arrived, returned>>

\* mutant: wait_for is called without a timeout
TimerNever(c) == FALSE

\* wait_for(future, timeout=timeout): the timer runs while the call waits
TimerArmed(c) == pc[c] = "waiting" /\ fut[c] = "pending"

\* the timer of wait_for expires while the future is pending: the future is
\* cancelled and the waiting task is scheduled
send_timeout(c) ==
    /\ TimerArmed(c)
    /\ fut' = [fut EXCEPT ![c] = "cancelled"]
    /\ timedOut' = [timedOut EXCEPT ![c] = TRUE]
    /\ ready' = Append(ready, c)
    /\ UNCHANGED outsideRouter
    /\ UNCHANGED <<svc, ws, wsConnected, listening, event_callback,
                   pending_futures, nextEcho, pc, echo, futResult, outcome,
                   result, wire, answered, evCount, cbSpawned, cbDone,
                   handed, arrived, returned>>

\* how wait_for ends for a settled future
WaitOutcome(c) ==
    IF fut[c] = "result" THEN "response"
    ELSE IF timedOut[c] THEN "timeout"
    ELSE "cancelled"

\* the loop resumes the first task of the ready queue: wait_for returns or
\* raises, "except asyncio.TimeoutError" converts, "finally" pops the echo
send_wakeup ==
    /\ ready # <<>>
    /\ LET c == Head(ready)
       IN /\ ready' = Tail(ready)
          /\ pc' = [pc EXCEPT ![c] = "done"]
          /\ outcome' = [outcome EXCEPT ![c] = WaitOutcome(c)]
          /\ result' = [result EXCEPT ![c] =
                          IF fut[c] = "result" THEN futResult[c] ELSE NoEcho]
          /\ returned' = IF fut[c] = "result" THEN Append(returned, c)
                         ELSE returned
          /\ pending_futures' = Pop(pending_futures, echo[c])
    /\ UNCHANGED outsideRouter
    /\ UNCHANGED <<svc, ws, wsConnected, listening, event_callback, nextEcho,
                   echo, fut, futResult, timedOut, wire, answered, evCount,
                   cbSpawned, cbDone, handed, arrived>>

\* frames the gateway can push next: an event frame, or the response to a
\* request frame it has received and not answered yet
Frames == {NoEcho} \cup Echoes
CanArrive(data) ==
    IF data = NoEcho THEN evCount < MaxEvents
    ELSE data \in wire /\ data \notin answered

\* "if future and not future.done()"
Live(future) == future # NoFuture /\ fut[future] = "pending"

\* "if echo: ... if future and not future.done(): set_result; return"
Delivered(data, future) == data # NoEcho /\ Live(future)

\* mutant: "if echo:" returns for every frame that carries an echo
ForwardedEventsOnly(data, future) == data = NoEcho

\* every frame that was not delivered falls through to the event callback
Forwarded(data, future) == ~Delivered(data, future)

\* mutant: the callback is awaited, the loop reads on when it has finished
ReceivingAwaited == listening /\ wsConnected /\ cbDone = cbSpawned

\* the receive loop takes the next frame: the callback runs in its own task
Receiving == listening /\ wsConnected

\* _on_message(data), data identified by its echo
on_message(data) ==
    /\ Receiving
    /\ CanArrive(data)
    /\ IF data = NoEcho
       THEN evCount' = evCount + 1 /\ UNCHANGED answered
       ELSE answered' = answered \cup {data} /\ UNCHANGED evCount
    /\ LET future == Get(pending_futures, data)
       IN IF Delivered(data, future)
          THEN /\ fut' = [fut EXCEPT ![future] = "result"]
               /\ futResult' = [futResult EXCEPT ![future] = data]
               /\ ready' = Append(ready, future)
               /\ arrived' = Append(arrived, data)
               /\ UNCHANGED <<cbSpawned, handed>>
          ELSE /\ IF Forwarded(data, future) /\ event_callback
                  THEN /\ cbSpawned' = cbSpawned + 1
                       /\ handed' = handed \cup {data}
                  ELSE UNCHANGED <<cbSpawned, handed>>
               /\ UNCHANGED <<fut, futResult, ready, arrived>>
    /\ UNCHANGED outsideRouter
    /\ UNCHANGED <<svc, ws, wsConnected, listening, event_callback,
                   pending_futures, nextEcho, pc, echo, timedOut, outcome,
                   result, wire, cbDone, returned>>

\* a task created for the event callback finishes
callback_done ==
    /\ cbDone < cbSpawned
    /\ cbDone' = cbDone + 1
    /\ UNCHANGED outsideRouter
    /\ UNCHANGED <<svc, ws, wsConnected, listening, event_callback,
                   pending_futures, nextEcho, pc, echo, fut, futResult,
                   timedOut, outcome, result, ready, wire, answered, evCount,
                   cbSpawned, handed, arrived, returned>>

RouterNext ==
    \/ on_load_begin
    \/ on_load_connected
    \/ on_load_failed
    \/ start_listening
    \/ on_close_begin
    \/ on_close_end
    \/ \E c \in Calls : send_start(c)
    \/ \E c \in Calls : send_write(c)
    \/ \E c \in Calls : send_timeout(c)
    \/ send_wakeup
    \/ \E data \in Frames : on_message(data)
    \/ callback_done

(* ------------------------------ RBACService ---------------------------- *)

EmptyDict == <<>>
EmptyLists == [whitelist |-> {}, blacklist |-> {}]

\* del d[k]
DictDel(d, k) == [x \in (DOMAIN d) \ {k} |-> d[x]]

\* d[k] = v
DictSet(d, k, v) == [x \in (DOMAIN d) \cup {k} |-> IF x = k THEN v ELSE d[x]]

\* what a call leaves behind: op "check" for check, "cycle" for the
\* ValueError of a self or cyclic inheritance, "call" otherwise
Ret(op, ok) == [op |-> op, ok |-> ok, user |-> 0, perm |-> <<>>,
                value |-> FALSE]
NoRet == [op |-> "none", ok |-> TRUE, user |-> 0, perm |-> <<>>,
          value |-> FALSE]

\* state after on_load of a service without persisted data: the default
\* role, if one is configured, has been added
RBACInit ==
    /\ default_role \in {NoRole, 1}
    /\ roles = IF default_role = NoRole THEN EmptyDict
               ELSE (default_role :> EmptyLists)
    /\ role_users = IF default_role = NoRole THEN EmptyDict
                    ELSE (default_role :> {})
    /\ users = EmptyDict
    /\ role_inheritance = {}
    /\ permissions = {}
    /\ cache = EmptyDict
    /\ ret = NoRet

\* mutant: the memoised values survive a mutation
keep_cache(ch) == ch

\* _clear_cache: cache_clear() of the lru_cache
clear_cache(ch) == EmptyDict

\* PermissionPath(pattern).matches(path): component-wise, "*" matches any
\* one component, a literal matches itself
Matches(pattern, path) ==
    /\ Len(pattern) = Len(path)
    /\ \A i \in 1..Len(pattern) : pattern[i] = "*" \/ pattern[i] = path[i]

\* self._role_inheritance.get(role, [])
Parents(inh, role) == {e[2] : e \in {x \in inh : x[1] = role}}

\* _would_create_cycle: depth-first search from new_parent along the parent
\* lists, looking for role
RECURSIVE CycleSearch(_, _, _, _)
CycleSearch(inh, role, todo, visited) ==
    IF todo = {} THEN FALSE
    ELSE LET current == CHOOSE x \in todo : TRUE
         IN IF current = role THEN TRUE
            ELSE IF current \in visited
                 THEN CycleSearch(inh, role, todo \ {current}, visited)
                 ELSE CycleSearch(inh, role,
                                  (todo \ {current}) \cup Parents(inh, current),
                                  visited \cup {current})

\* mutant: only the parents of new_parent are inspected, not its ancestors
would_create_cycle_direct(inh, role, new_parent) ==
    new_parent = role \/ role \in Parents(inh, new_parent)

would_create_cycle(inh, role, new_parent) ==
    CycleSearch(inh, role, {new_parent}, {})

\* mutant: only the roles the user holds directly are collected
collect_roles_direct(inh, todo, all_roles) == todo \cup all_roles

\* collect_roles: the roles of a user with all their ancestors
RECURSIVE collect_roles(_, _, _)
collect_roles(inh, todo, all_roles) ==
    IF todo = {} THEN all_roles
    ELSE LET role == CHOOSE x \in todo : TRUE
         IN IF role \in all_roles
            THEN collect_roles(inh, todo \ {role}, all_roles)
            ELSE collect_roles(inh, (todo \ {role}) \cup Parents(inh, role),
                               all_roles \cup {role})

\* body of _get_effective_permissions
get_effective_permissions(user) ==
    IF user \notin DOMAIN users THEN EmptyLists
    ELSE LET all_roles == collect_roles(role_inheritance, users[user].roles, {})
             known == all_roles \cap DOMAIN roles
         IN [whitelist |-> users[user].whitelist
                           \cup UNION {roles[r].whitelist : r \in known},
             blacklist |-> users[user].blacklist
                           \cup UNION {roles[r].blacklist : r \in known}]

\* users and role_users after add_user(user) on a user that does not exist
AddedUsers(us, user) ==
    DictSet(us, user,
            [whitelist |-> {}, blacklist |-> {},
             roles |-> IF default_role = NoRole THEN {} ELSE {default_role}])
AddedRoleUsers(ru, user) ==
    IF default_role # NoRole /\ default_role \in DOMAIN ru
    THEN DictSet(ru, default_role, ru[default_role] \cup {user})
    ELSE ru

\* number of white-list and black-list entries in the service
RECURSIVE Entries(_, _)
Entries(d, keys) ==
    IF keys = {} THEN 0
    ELSE LET k == CHOOSE x \in keys : TRUE
         IN Cardinality(d[k].whitelist) + Cardinality(d[k].blacklist)
            + Entries(d, keys \ {k})
TotalEntries == Entries(roles, DOMAIN roles) + Entries(users, DOMAIN users)

add_permission(path) ==
    /\ IF path \notin permissions
       THEN permissions' = permissions \cup {path} /\ cache' = clear_cache(cache)
       ELSE UNCHANGED <<permissions, cache>>
    /\ ret' = Ret("call", TRUE)
    /\ UNCHANGED <<default_role, roles, users, role_users, role_inheritance>>
    /\ UNCHANGED outsideRBAC

remove_permission(path) ==
    /\ permissions' = permissions \ {path}
    /\ cache' = clear_cache(cache)
    /\ ret' = Ret("call", TRUE)
    /\ UNCHANGED <<default_role, roles, users, role_users, role_inheritance>>
    /\ UNCHANGED outsideRBAC

add_role(role, exist_ok) ==
    /\ IF role \in DOMAIN roles
       THEN /\ ret' = Ret("call", exist_ok)
            /\ UNCHANGED <<roles, role_users, cache>>
       ELSE /\ roles' = DictSet(roles, role, EmptyLists)
            /\ role_users' = DictSet(role_users, role, {})
            /\ cache' = clear_cache(cache)
            /\ ret' = Ret("call", TRUE)
    /\ UNCHANGED <<default_role, users, role_inheritance, permissions>>
    /\ UNCHANGED outsideRBAC

remove_role(role) ==
    /\ IF role \notin DOMAIN roles
       THEN /\ ret' = Ret("call", FALSE)
            /\ UNCHANGED <<roles, users, role_users, role_inheritance, cache>>
       ELSE /\ role_inheritance' =
                  {e \in role_inheritance : e[1] # role /\ e[2] # role}
            /\ users' = [u \in DOMAIN users |->
                           IF u \in role_users[role]
                           THEN [users[u] EXCEPT !.roles = @ \ {role}]
                           ELSE users[u]]
            /\ roles' = DictDel(roles, role)
            /\ role_users' = DictDel(role_users, role)
            /\ cache' = clear_cache(cache)
            /\ ret' = Ret("call", TRUE)
    /\ UNCHANGED <<default_role, permissions>>
    /\ UNCHANGED outsideRBAC

set_role_inheritance(role, parent) ==
    /\ IF role \notin DOMAIN roles \/ parent \notin DOMAIN roles
       THEN /\ ret' = Ret("call", FALSE)
            /\ UNCHANGED <<role_inheritance, cache>>
       ELSE IF \/ role = parent
               \/ would_create_cycle(role_inheritance, role, parent)
       THEN /\ ret' = Ret("cycle", FALSE)
            /\ UNCHANGED <<role_inheritance, cache>>
       ELSE /\ ret' = Ret("call", TRUE)
            /\ IF <<role, parent>> \notin role_inheritance
               THEN /\ role_inheritance' =
                          role_inheritance \cup {<<role, parent>>}
                    /\ cache' = clear_cache(cache)
               ELSE UNCHANGED <<role_inheritance, cache>>
    /\ UNCHANGED <<default_role, roles, users, role_users, permissions>>
    /\ UNCHANGED outsideRBAC

add_user(user, exist_ok) ==
    /\ IF user \in DOMAIN users
       THEN /\ ret' = Ret("call", exist_ok)
            /\ UNCHANGED <<users, role_users, cache>>
       ELSE /\ users' = AddedUsers(users, user)
            /\ role_users' = AddedRoleUsers(role_users, user)
            /\ cache' = clear_cache(cache)
            /\ ret' = Ret("call", TRUE)
    /\ UNCHANGED <<default_role, roles, role_inheritance, permissions>>
    /\ UNCHANGED outsideRBAC

remove_user(user) ==
    /\ IF user \notin DOMAIN users
       THEN /\ ret' = Ret("call", FALSE)
            /\ UNCHANGED <<users, role_users, cache>>
       ELSE /\ role_users' = [r \in DOMAIN role_users |->
                                IF r \in users[user].roles
                                THEN role_users[r] \ {user}
                                ELSE role_users[r]]
            /\ users' = DictDel(users, user)
            /\ cache' = clear_cache(cache)
            /\ ret' = Ret("call", TRUE)
    /\ UNCHANGED <<default_role, roles, role_inheritance, permissions>>
    /\ UNCHANGED outsideRBAC

assign_role(user, role, create_user) ==
    LET exists == user \in DOMAIN users
        us == IF exists THEN users ELSE AddedUsers(users, user)
        ru == IF exists THEN role_users ELSE AddedRoleUsers(role_users, user)
        ch == IF exists THEN cache ELSE clear_cache(cache)
    IN
    /\ IF ~exists /\ ~create_user
       THEN /\ ret' = Ret("call", FALSE)
            /\ UNCHANGED <<users, role_users, cache>>
       ELSE IF role \notin DOMAIN roles
       THEN /\ ret' = Ret("call", FALSE)
            /\ users' = us /\ role_users' = ru /\ cache' = ch
       ELSE IF role \notin us[user].roles
       THEN /\ users' = [us EXCEPT ![user].roles = @ \cup {role}]
            /\ role_users' = [ru EXCEPT ![role] = @ \cup {user}]
            /\ cache' = clear_cache(cache)
            /\ ret' = Ret("call", TRUE)
       ELSE /\ ret' = Ret("call", TRUE)
            /\ users' = us /\ role_users' = ru /\ cache' = ch
    /\ UNCHANGED <<default_role, roles, role_inheritance, permissions>>
    /\ UNCHANGED outsideRBAC

\* self._role_users[role] raises KeyError for a role that has no index
\* entry, after the role was taken off the user's list
unassign_role(user, role) ==
    /\ IF user \notin DOMAIN users
       THEN /\ ret' = Ret("call", FALSE)
            /\ UNCHANGED <<users, role_users, cache>>
       ELSE IF role \notin users[user].roles
       THEN /\ ret' = Ret("call", TRUE)
            /\ UNCHANGED <<users, role_users, cache>>
       ELSE /\ users' = [users EXCEPT ![user].roles = @ \ {role}]
            /\ IF role \in DOMAIN role_users
               THEN /\ role_users' = [role_users EXCEPT ![role] = @ \ {user}]
                    /\ cache' = clear_cache(cache)
                    /\ ret' = Ret("call", TRUE)
               ELSE /\ ret' = Ret("call", FALSE)
                    /\ UNCHANGED <<role_users, cache>>
    /\ UNCHANGED <<default_role, roles, role_inheritance, permissions>>
    /\ UNCHANGED outsideRBAC

\* target_data[list_key].add(permission); target_data[opposite_key].discard
Granted(data, permission, mode) ==
    IF mode = "white"
    THEN [data EXCEPT !.whitelist = @ \cup {permission},
                      !.blacklist = @ \ {permission}]
    ELSE [data EXCEPT !.blacklist = @ \cup {permission},
                      !.whitelist = @ \ {permission}]

Revoked(data, permission) ==
    [data EXCEPT !.whitelist = @ \ {permission},
                 !.blacklist = @ \ {permission}]

grant(target_type, target, permission, mode, create_permission) ==
    LET known == permission \in permissions
        targets == IF target_type = "user" THEN users ELSE roles
    IN
    /\ IF ~known /\ ~create_permission
       THEN /\ ret' = Ret("call", FALSE)
            /\ UNCHANGED <<roles, users, permissions, cache>>
       ELSE IF target \notin DOMAIN targets
       THEN /\ ret' = Ret("call", FALSE)
            /\ permissions' = permissions \cup {permission}
            /\ cache' = IF known THEN cache ELSE clear_cache(cache)
            /\ UNCHANGED <<roles, users>>
       ELSE /\ permissions' = permissions \cup {permission}
            /\ IF target_type = "user"
               THEN /\ users' = [users EXCEPT ![target] =
                                   Granted(@, permission, mode)]
                    /\ UNCHANGED roles
               ELSE /\ roles' = [roles EXCEPT ![target] =
                                   Granted(@, permission, mode)]
                    /\ UNCHANGED users
            /\ cache' = clear_cache(cache)
            /\ ret' = Ret("call", TRUE)
    /\ TotalEntries' <= MaxGrants
    /\ UNCHANGED <<default_role, role_users, role_inheritance>>
    /\ UNCHANGED outsideRBAC

revoke(target_type, target, permission) ==
    LET targets == IF target_type = "user" THEN users ELSE roles
    IN
    /\ IF target \notin DOMAIN targets
       THEN /\ ret' = Ret("call", FALSE)
            /\ UNCHANGED <<roles, users, cache>>
       ELSE /\ IF target_type = "user"
               THEN /\ users' = [users EXCEPT ![target] =
                                   Revoked(@, permission)]
                    /\ UNCHANGED roles
               ELSE /\ roles' = [roles EXCEPT ![target] =
                                   Revoked(@, permission)]
                    /\ UNCHANGED users
            /\ cache' = clear_cache(cache)
            /\ ret' = Ret("call", TRUE)
    /\ UNCHANGED <<default_role, role_users, role_inheritance, permissions>>
    /\ UNCHANGED outsideRBAC

\* mutant: a path that no list matches is allowed
DecideDefaultOpen(perms, permission) ==
    IF \E black \in perms.blacklist : Matches(black, permission)
    THEN FALSE
    ELSE TRUE

\* mutant: the white-list loop runs first
DecideWhiteFirst(perms, permission) ==
    IF \E white \in perms.whitelist : Matches(white, permission) THEN TRUE
    ELSE FALSE

\* the black-list loop, then the white-list loop, then the default
Decide(perms, permission) ==
    IF \E black \in perms.blacklist : Matches(black, permission) THEN FALSE
    ELSE IF \E white \in perms.whitelist : Matches(white, permission)
         THEN TRUE
         ELSE FALSE

\* @lru_cache: a stored value is returned without running the body
Cached(ch, user, computed) ==
    IF user \in DOMAIN ch THEN ch[user] ELSE computed

\* add_permission and every other mutation end with _clear_cache()
check(user, permission, create_user) ==
    LET exists == user \in DOMAIN users
    IN
    /\ UNCHANGED <<default_role, roles, role_inheritance, permissions>>
    /\ UNCHANGED outsideRBAC
    /\ IF ~exists /\ ~create_user
       THEN /\ ret' = [op |-> "check", ok |-> FALSE, user |-> user,
                       perm |-> permission, value |-> FALSE]
            /\ UNCHANGED <<users, role_users, cache>>
       ELSE /\ users' = IF exists THEN users ELSE AddedUsers(users, user)
            /\ role_users' = IF exists THEN role_users
                             ELSE AddedRoleUsers(role_users, user)
            /\ LET ch == IF exists THEN cache ELSE clear_cache(cache)
                   perms == Cached(ch, user, get_effective_permissions(user)')
               IN /\ cache' = DictSet(ch, user, perms)
                  /\ ret' = [op |-> "check", ok |-> TRUE, user |-> user,
                             perm |-> permission,
                             value |-> Decide(perms, permission)]

\* calls with the default arguments exist_ok=False, create_permission=True
RBACCalls(R) ==
    \/ \E r \in R : add_role(r, FALSE)
    \/ \E r \in R : remove_role(r)
    \/ \E r \in R, p \in R : set_role_inheritance(r, p)
    \/ \E u \in Users : add_user(u, FALSE)
    \/ \E u \in Users : remove_user(u)
    \/ \E u \in Users, r \in R, cu \in BOOLEAN : assign_role(u, r, cu)
    \/ \E u \in Users, r \in R : unassign_role(u, r)
    \/ \E t \in R, p \in Patterns, m \in {"white", "black"} :
          grant("role", t, p, m, TRUE)
    \/ \E t \in Users, p \in Patterns, m \in {"white", "black"} :
          grant("user", t, p, m, TRUE)
    \/ \E t \in R, p \in Patterns : revoke("role", t, p)
    \/ \E t \in Users, p \in Patterns : revoke("user", t, p)
    \/ \E u \in Users, p \in Paths, cu \in BOOLEAN : check(u, p, cu)

RBACNext == RBACCalls(Roles)

\* runs that only edit the role graph
RoleGraphNext ==
    \/ \E r \in GraphRoles, ok \in BOOLEAN : add_role(r, ok)
    \/ \E r \in GraphRoles : remove_role(r)
    \/ \E r \in GraphRoles, p \in GraphRoles : set_role_inheritance(r, p)

(* ------------------- PluginLoader, BasePlugin, event bus --------------- *)

\* The manifests of scenario S4: every plugin is installed at version 1;
\* A declares B ">=1", C declares B ">=2", B declares nothing.
Version(name) == 1
Dependencies(name) == IF name \in {"A", "C"} THEN {"B"} ELSE {}
Constraint(name, dep) == IF name = "C" THEN 2 ELSE 1

\* SpecifierSet(constraint).contains(parse_version(dep.version)), for the
\* ">=" constraints of the manifests
Satisfies(constraint, version) == version >= constraint

\* the plugin that is also loaded on its own (load_plugin, reload)
SingleLoads == {"B"}

\* the batches handed to load_all_plugins_by_class: sets of discovered
\* plugins that contain the dependencies they declare
Batches == {{"B"}, {"A", "B"}, {"B", "C"}, {"A", "B", "C"}}

\* self._resolver.resolve(): a topological order of the batch
LoadOrder(names) ==
    SelectSeq(<<"B", "A", "C">>, LAMBDA n : n \in names)

NoBatch == [names |-> {}, order |-> <<>>, next |-> 1, insts |-> {},
            result |-> "none"]

NoUnloadAll == [order |-> <<>>, next |-> 1, insts |-> {}, result |-> "none"]

PluginInit ==
    /\ plugins = [n \in Names |-> NoInst]
    /\ nextInst = 0
    /\ inst_name = [i \in Insts |-> "none"]
    /\ inst_state = [i \in Insts |-> "none"]
    /\ closing = {}
    /\ unloaded = {}
    /\ handlers_id = [i \in Insts |-> {}]
    /\ bus = {}
    /\ nextHandler = 0
    /\ unsubscribed = {}
    /\ invoked = {}
    /\ commands = {}
    /\ func_plugin_map = [n \in Names |-> NoInst]
    /\ replied = NoInst
    /\ batch = NoBatch
    /\ config = [i \in Insts |-> EmptyConfig]
    /\ data_file = [n \in Names |-> NoFile]
    /\ first_load = [i \in Insts |-> TRUE]
    /\ close_raised = {}
    /\ held = [n \in Names |-> NoConfig]
    /\ plugin_order = <<>>
    /\ unload_all = NoUnloadAll

\* _validate_versions: every constraint of the batch is looked up in
\* self.plugins; the first plugin with a failing constraint raises
RECURSIVE ValidateFrom(_, _, _)
ValidateFrom(tbl, order, k) ==
    IF k > Len(order) THEN "ok"
    ELSE LET name == order[k]
         IN IF \E dep \in Dependencies(name) : tbl[dep] = NoInst
            THEN "dependency_error"
            ELSE IF \E dep \in Dependencies(name) :
                        ~Satisfies(Constraint(name, dep), Version(dep))
            THEN "version_error"
            ELSE ValidateFrom(tbl, order, k + 1)
validate_versions(tbl, order) == ValidateFrom(tbl, order, 1)

\* "self.plugins[name] = plugin": a new key goes to the end of the dict
KeySet(order, name) ==
    IF \E k \in 1..Len(order) : order[k] = name THEN order
    ELSE Append(order, name)

\* "del self.plugins[name]"
KeyDel(order, name) == SelectSeq(order, LAMBDA n : n # name)

\* the implicit resolver of YAML: a plain scalar of digits is an int
ResolvesToInt(lexical) == lexical \in {"1"}

\* mutant: strings are never quoted
yaml_dump_plain(cfg) ==
    IF cfg = EmptyConfig THEN <<"{}">> ELSE <<"k", cfg[2], "plain">>

\* yaml.dump(self.config): "{}" for the empty dict, else "k: <scalar>",
\* the scalar quoted when it is a str that would resolve to another type
yaml_dump(cfg) ==
    IF cfg = EmptyConfig THEN <<"{}">>
    ELSE <<"k", cfg[2],
           IF cfg[1] = "str" /\ ResolvesToInt(cfg[2]) THEN "quoted"
           ELSE "plain">>

\* "yaml.safe_load(content) or {}"
yaml_safe_load(text) ==
    IF text = <<"{}">> THEN EmptyConfig
    ELSE IF text[3] = "plain" /\ ResolvesToInt(text[2])
         THEN <<"int", text[2]>>
         ELSE <<"str", text[2]>>

\* load_plugin_by_class up to its await: the instance is constructed
\* (first_load is computed from the data file) and stored in
\* self.plugins, __onload__ is handed to the executor
Constructed(name) ==
    LET i == nextInst + 1
    IN /\ nextInst' = i
       /\ inst_name' = [inst_name EXCEPT ![i] = name]
       /\ inst_state' = [inst_state EXCEPT ![i] = "submitted"]
       /\ first_load' = [first_load EXCEPT ![i] = (data_file[name] = NoFile)]
       /\ plugins' = [plugins EXCEPT ![name] = i]
       /\ plugin_order' = KeySet(plugin_order, name)

\* load_plugin(name) / register of a plugin class: the module is imported
\* (its command decorators register its specs), then load_plugin_by_class
load_plugin(name) ==
    /\ nextInst < MaxInst
    /\ Constructed(name)
    /\ commands' = commands \cup {name}
    /\ UNCHANGED <<closing, unloaded, handlers_id, bus, nextHandler,
                   unsubscribed, invoked, func_plugin_map, replied, batch>>
    /\ UNCHANGED <<config, data_file, close_raised, held, unload_all>>
    /\ UNCHANGED outsidePlugins

\* load_all_plugins_by_class up to "await asyncio.gather": resolve,
\* create the coroutines (nothing runs yet), _validate_versions
load_all_begin(names) ==
    /\ batch.result # "running"
    /\ LET order == LoadOrder(names)
           verdict == validate_versions(plugins, order)
       IN /\ verdict = "ok" => nextInst + Len(order) <= MaxInst
          /\ batch' = [names |-> names, order |-> order, next |-> 1,
                       insts |-> {},
                       result |-> IF verdict = "ok" THEN "running"
                                  ELSE verdict]
    /\ commands' = commands \cup names
    /\ UNCHANGED <<plugins, nextInst, inst_name, inst_state, closing,
                   unloaded, handlers_id, bus, nextHandler, unsubscribed,
                   invoked, func_plugin_map, replied>>
    /\ UNCHANGED lifeVars
    /\ UNCHANGED outsidePlugins

\* gather starts the next coroutine of init_tasks: load_plugin_by_class
load_all_task ==
    /\ batch.result = "running"
    /\ batch.next <= Len(batch.order)
    /\ nextInst < MaxInst
    /\ Constructed(batch.order[batch.next])
    /\ batch' = [batch EXCEPT !.next = @ + 1,
                              !.insts = @ \cup {nextInst + 1}]
    /\ UNCHANGED <<closing, unloaded, handlers_id, bus, nextHandler,
                   unsubscribed, invoked, commands, func_plugin_map,
                   replied>>
    /\ UNCHANGED <<config, data_file, close_raised, held, unload_all>>
    /\ UNCHANGED outsidePlugins

\* gather returns: every __onload__ has returned, or one has raised
load_all_end ==
    /\ batch.result = "running"
    /\ batch.next > Len(batch.order)
    /\ \/ /\ \A i \in batch.insts : inst_state[i] = "ready"
          /\ batch' = [batch EXCEPT !.result = "ok"]
       \/ /\ \E i \in batch.insts : inst_state[i] = "failed"
          /\ batch' = [batch EXCEPT !.result = "load_error"]
    /\ UNCHANGED <<plugins, nextInst, inst_name, inst_state, closing,
                   unloaded, handlers_id, bus, nextHandler, unsubscribed,
                   invoked, commands, func_plugin_map, replied>>
    /\ UNCHANGED lifeVars
    /\ UNCHANGED outsidePlugins

\* the executor thread starts __onload__: workspace, config, _init_, on_load
on_load_begins(i) ==
    /\ inst_state[i] = "submitted"
    /\ inst_state' = [inst_state EXCEPT ![i] = "loading"]
    /\ config' = [config EXCEPT ![i] =
                     IF first_load[i] THEN EmptyConfig
                     ELSE yaml_safe_load(data_file[inst_name[i]])]
    /\ UNCHANGED <<plugins, nextInst, inst_name, closing, unloaded,
                   handlers_id, bus, nextHandler, unsubscribed, invoked,
                   commands, func_plugin_map, replied, batch>>
    /\ UNCHANGED <<data_file, first_load, close_raised, held,
                   plugin_order, unload_all>>
    /\ UNCHANGED outsidePlugins

\* on_load returns
on_load_returns(i) ==
    /\ inst_state[i] = "loading"
    /\ inst_state' = [inst_state EXCEPT ![i] = "ready"]
    /\ UNCHANGED <<plugins, nextInst, inst_name, closing, unloaded,
                   handlers_id, bus, nextHandler, unsubscribed, invoked,
                   commands, func_plugin_map, replied, batch>>
    /\ UNCHANGED lifeVars
    /\ UNCHANGED outsidePlugins

\* on_load raises: the exception leaves load_plugin_by_class, load_plugin
\* logs it; nothing is undone
on_load_raises(i) ==
    /\ inst_state[i] = "loading"
    /\ inst_state' = [inst_state EXCEPT ![i] = "failed"]
    /\ UNCHANGED <<plugins, nextInst, inst_name, closing, unloaded,
                   handlers_id, bus, nextHandler, unsubscribed, invoked,
                   commands, func_plugin_map, replied, batch>>
    /\ UNCHANGED lifeVars
    /\ UNCHANGED outsidePlugins

\* code of the plugin is running: its on_load hook, or a handler of an
\* initialised plugin that is not being unloaded
Running(i) ==
    \/ inst_state[i] = "loading"
    \/ inst_state[i] = "ready" /\ i \notin closing /\ i \notin unloaded

\* register_handler: subscribe on the bus, remember the id
register_handler(i) ==
    /\ Running(i)
    /\ nextHandler < MaxHandlers
    /\ LET handler_id == nextHandler + 1
       IN /\ nextHandler' = handler_id
          /\ bus' = bus \cup {handler_id}
          /\ handlers_id' = [handlers_id EXCEPT ![i] = @ \cup {handler_id}]
    /\ UNCHANGED <<plugins, nextInst, inst_name, inst_state, closing,
                   unloaded, unsubscribed, invoked, commands,
                   func_plugin_map, replied, batch>>
    /\ UNCHANGED lifeVars
    /\ UNCHANGED outsidePlugins

\* "if handler_id in self._handlers_id"
Owns(i, handler_id) == handler_id \in handlers_id[i]

\* mutant: the id is forgotten, the bus is not told
UnsubscribeNothing(live, handler_id) == live

\* "return self.event_bus.unsubscribe(handler_id)"
Unsubscribe(live, handler_id) == live \ {handler_id}

\* unregister_handler(handler_id)
unregister_handler(i, handler_id) ==
    /\ Running(i)
    /\ handler_id <= nextHandler
    /\ IF Owns(i, handler_id)
       THEN /\ handlers_id' = [handlers_id EXCEPT ![i] = @ \ {handler_id}]
            /\ bus' = Unsubscribe(bus, handler_id)
            /\ unsubscribed' = unsubscribed \cup {handler_id}
       ELSE UNCHANGED <<handlers_id, bus, unsubscribed>>
    /\ UNCHANGED <<plugins, nextInst, inst_name, inst_state, closing,
                   unloaded, nextHandler, invoked, commands,
                   func_plugin_map, replied, batch>>
    /\ UNCHANGED lifeVars
    /\ UNCHANGED outsidePlugins

\* unregister_all_handler over a set of ids
RECURSIVE UnsubscribeAll(_, _)
UnsubscribeAll(live, ids) ==
    IF ids = {} THEN live
    ELSE LET h == CHOOSE x \in ids : TRUE
         IN UnsubscribeAll(Unsubscribe(live, h), ids \ {h})

\* unload_plugin(name) up to the await of on_close inside __unload__:
\* unregister_all_handler, _close_
unload_begin(name) ==
    /\ plugins[name] # NoInst
    /\ plugins[name] \notin closing
    /\ LET i == plugins[name]
       IN /\ bus' = UnsubscribeAll(bus, handlers_id[i])
          /\ unsubscribed' = unsubscribed \cup handlers_id[i]
          /\ handlers_id' = [handlers_id EXCEPT ![i] = {}]
          /\ closing' = closing \cup {i}
    /\ UNCHANGED <<plugins, nextInst, inst_name, inst_state, unloaded,
                   nextHandler, invoked, commands, func_plugin_map, replied,
                   batch>>
    /\ UNCHANGED lifeVars
    /\ UNCHANGED outsidePlugins

\* the plugin's code assigns a value in self.config
set_config(i, value) ==
    /\ Running(i)
    /\ value # config[i]
    /\ config' = [config EXCEPT ![i] = value]
    /\ UNCHANGED <<plugins, nextInst, inst_name, inst_state, closing,
                   unloaded, handlers_id, bus, nextHandler, unsubscribed,
                   invoked, commands, func_plugin_map, replied, batch>>
    /\ UNCHANGED <<data_file, first_load, close_raised, held, plugin_order,
                   unload_all>>
    /\ UNCHANGED outsidePlugins

\* the on_close hook raises: "except Exception" of __unload__ logs it
on_close_raises(i) ==
    /\ i \in closing
    /\ i \notin close_raised
    /\ close_raised' = close_raised \cup {i}
    /\ UNCHANGED <<plugins, nextInst, inst_name, inst_state, closing,
                   unloaded, handlers_id, bus, nextHandler, unsubscribed,
                   invoked, commands, func_plugin_map, replied, batch>>
    /\ UNCHANGED <<config, data_file, first_load, held, plugin_order,
                   unload_all>>
    /\ UNCHANGED outsidePlugins

\* mutant: the exception of on_close leaves __unload__
PropagatesRaised(raised) == raised

\* whether __unload__ ends with an exception after on_close has ended:
\* "except Exception" catches what the hook raised
Propagates(raised) == FALSE

\* on_close has ended and the config is saved (the finally block of
\* __unload__): unload_module, "del self.plugins[name]" (a KeyError is
\* logged).  The unload_plugin calls of an unload_all continue after all of
\* them have been started.  With notify the caller is
\* SystemManager.unload_plugin, which then publishes
\* ncatbot.plugin_unload, and the registry revokes the plugin's commands.
unload_end(i, notify) ==
    /\ i \in closing
    /\ (unload_all.result = "running" /\ i \in unload_all.insts)
          => unload_all.next > Len(unload_all.order)
    /\ closing' = closing \ {i}
    /\ unloaded' = unloaded \cup {i}
    /\ data_file' = [data_file EXCEPT ![inst_name[i]] = yaml_dump(config[i])]
    /\ held' = [held EXCEPT ![inst_name[i]] = config[i]]
    /\ IF Propagates(i \in close_raised)
       THEN UNCHANGED <<plugins, plugin_order>>
       ELSE /\ plugins' = [plugins EXCEPT ![inst_name[i]] = NoInst]
            /\ plugin_order' = KeyDel(plugin_order, inst_name[i])
    /\ commands' = IF notify THEN commands \ {inst_name[i]} ELSE commands
    /\ UNCHANGED <<nextInst, inst_name, inst_state, handlers_id, bus,
                   nextHandler, unsubscribed, invoked, func_plugin_map,
                   replied, batch>>
    /\ UNCHANGED <<config, first_load, close_raised, unload_all>>
    /\ UNCHANGED outsidePlugins

\* unload_all up to "await asyncio.gather": one unload_plugin coroutine
\* per key of self.plugins, in the order of the dict
unload_all_begin ==
    /\ unload_all.result # "running"
    /\ unload_all' = [order |-> plugin_order, next |-> 1, insts |-> {},
                      result |-> "running"]
    /\ UNCHANGED <<plugins, nextInst, inst_name, inst_state, closing,
                   unloaded, handlers_id, bus, nextHandler, unsubscribed,
                   invoked, commands, func_plugin_map, replied, batch>>
    /\ UNCHANGED <<config, data_file, first_load, close_raised, held,
                   plugin_order>>
    /\ UNCHANGED outsidePlugins

\* gather starts the next unload_plugin(name): it runs up to the await of
\* on_close inside __unload__ (unregister_all_handler, _close_)
unload_all_task ==
    /\ unload_all.result = "running"
    /\ unload_all.next <= Len(unload_all.order)
    /\ LET name == unload_all.order[unload_all.next]
           i == plugins[name]
       IN IF i = NoInst
          THEN /\ unload_all' = [unload_all EXCEPT !.next = @ + 1]
               /\ UNCHANGED <<bus, unsubscribed, handlers_id, closing>>
          ELSE /\ unload_all' = [unload_all EXCEPT !.next = @ + 1,
                                                   !.insts = @ \cup {i}]
               /\ bus' = UnsubscribeAll(bus, handlers_id[i])
               /\ unsubscribed' = unsubscribed \cup handlers_id[i]
               /\ handlers_id' = [handlers_id EXCEPT ![i] = {}]
               /\ closing' = closing \cup {i}
    /\ UNCHANGED <<plugins, nextInst, inst_name, inst_state, unloaded,
                   nextHandler, invoked, commands, func_plugin_map, replied,
                   batch>>
    /\ UNCHANGED <<config, data_file, first_load, close_raised, held,
                   plugin_order>>
    /\ UNCHANGED outsidePlugins

\* gather returns: every unload_plugin call has ended
unload_all_end ==
    /\ unload_all.result = "running"
    /\ unload_all.next > Len(unload_all.order)
    /\ unload_all.insts \subseteq unloaded
    /\ unload_all' = [unload_all EXCEPT !.result = "done"]
    /\ UNCHANGED <<plugins, nextInst, inst_name, inst_state, closing,
                   unloaded, handlers_id, bus, nextHandler, unsubscribed,
                   invoked, commands, func_plugin_map, replied, batch>>
    /\ UNCHANGED <<config, data_file, first_load, close_raised, held,
                   plugin_order>>
    /\ UNCHANGED outsidePlugins

\* EventBus.publish(event): the handlers of the live subscriptions run
publish ==
    /\ invoked' = bus
    /\ UNCHANGED <<plugins, nextInst, inst_name, inst_state, closing,
                   unloaded, handlers_id, bus, nextHandler, unsubscribed,
                   commands, func_plugin_map, replied, batch>>
    /\ UNCHANGED lifeVars
    /\ UNCHANGED outsidePlugins

\* _find_plugin_for_function: the cached instance, else the instance in
\* the loader's table
find_plugin_for_function(name) ==
    IF func_plugin_map[name] # NoInst THEN func_plugin_map[name]
    ELSE plugins[name]

\* run_command for a message that matches a command of plugin name: the
\* handler runs and replies when its plugin instance is found; without one
\* the call fails for a missing argument and nothing is replied
run_command(name) ==
    /\ name \in commands
    /\ LET plugin == find_plugin_for_function(name)
       IN /\ func_plugin_map' = [func_plugin_map EXCEPT ![name] = plugin]
          /\ replied' = plugin
    /\ UNCHANGED <<plugins, nextInst, inst_name, inst_state, closing,
                   unloaded, handlers_id, bus, nextHandler, unsubscribed,
                   invoked, commands, batch>>
    /\ UNCHANGED lifeVars
    /\ UNCHANGED outsidePlugins

\* loading and unloading single plugins, their subscriptions and commands
PluginNext ==
    \/ \E name \in SingleLoads : load_plugin(name)
    \/ \E i \in Insts : on_load_begins(i)
    \/ \E i \in Insts : on_load_returns(i)
    \/ \E i \in Insts : on_load_raises(i)
    \/ \E i \in Insts : register_handler(i)
    \/ \E i \in Insts, h \in HandlerIds : unregister_handler(i, h)
    \/ \E name \in Names : unload_begin(name)
    \/ \E i \in Insts, notify \in BOOLEAN : unload_end(i, notify)
    \/ publish
    \/ \E name \in Names : run_command(name)

\* the plugins of the runs that reload and unload
LifeNames == {"A", "B"}

\* reload cycles of single plugins: load, edit the config, unload
ReloadNext ==
    \/ \E name \in SingleLoads : load_plugin(name)
    \/ \E i \in Insts : on_load_begins(i)
    \/ \E i \in Insts : on_load_returns(i)
    \/ \E i \in Insts : on_load_raises(i)
    \/ \E i \in Insts, value \in ConfigValues : set_config(i, value)
    \/ \E name \in Names : unload_begin(name)
    \/ \E i \in Insts : on_close_raises(i)
    \/ \E i \in Insts : unload_end(i, FALSE)

\* loads followed by unload_all
UnloadAllNext ==
    \/ \E name \in LifeNames : load_plugin(name)
    \/ \E i \in Insts : on_load_begins(i)
    \/ \E i \in Insts : on_load_returns(i)
    \/ \E i \in Insts : set_config(i, <<"int", "1">>)
    \/ unload_all_begin
    \/ unload_all_task
    \/ \E i \in Insts : on_close_raises(i)
    \/ \E i \in Insts : unload_end(i, FALSE)
    \/ unload_all_end

\* batch loading, next to single loads
BatchNext ==
    \/ \E name \in SingleLoads : load_plugin(name)
    \/ \E names \in Batches : load_all_begin(names)
    \/ load_all_task
    \/ load_all_end
    \/ \E i \in Insts : on_load_begins(i)
    \/ \E i \in Insts : on_load_returns(i)
    \/ \E i \in Insts : on_load_raises(i)

(* ----------------- UnifiedRegistryService, CommandRunner -------------- *)

NoResult == [kind |-> "none", p1 |-> <<>>, p2 |-> <<>>]
NoDispatch == [via |-> "none", resolved |-> FALSE, allow |-> FALSE,
               bindable |-> FALSE, bind_attempted |-> FALSE,
               published |-> FALSE, invoked |-> FALSE, raised |-> FALSE]

RegistryInit ==
    /\ reg_prefixes = <<>>
    /\ initialized = FALSE
    /\ prefixes = <<>>
    /\ index = {}
    /\ init_result = NoResult
    /\ delivered = 0
    /\ dispatch = NoDispatch

\* list(dict.fromkeys(...)): the first occurrence of each element, in order
RECURSIVE FromKeys(_)
FromKeys(seq) ==
    IF seq = <<>> THEN <<>>
    ELSE LET front == FromKeys(SubSeq(seq, 1, Len(seq) - 1))
             last == seq[Len(seq)]
         IN IF \E k \in 1..Len(front) : front[k] = last THEN front
            ELSE Append(front, last)

\* 'if "" in self.prefixes: self.prefixes.remove("")'
RemoveEmpty(seq) == SelectSeq(seq, LAMBDA x : x # <<>>)

\* mutant: no prefix starts with another
startswith_never(p2, p1) == FALSE

\* p2.startswith(p1)
startswith(p2, p1) ==
    /\ Len(p1) <= Len(p2)
    /\ SubSeq(p2, 1, Len(p1)) = p1

\* the pairs <<i, j>> that the two nested loops would raise for
ConflictPairs(norm) ==
    {ij \in (1..Len(norm)) \X (1..Len(norm)) :
        ij[1] # ij[2] /\ startswith(norm[ij[2]], norm[ij[1]])}

\* the first pair the loops reach: the outer index first
FirstConflict(norm) ==
    CHOOSE ij \in ConflictPairs(norm) :
        \A kl \in ConflictPairs(norm) :
            ij[1] < kl[1] \/ (ij[1] = kl[1] /\ ij[2] <= kl[2])

\* mutant: the resolver of the previous build stays in use
KeptResolver(old) == old

\* "self._resolver = CommandResolver(...)": an index with no command
NewResolver(old) == {}

\* the body of initialize_if_needed after "self._initialized = True":
\* the prefixes are collected, the preprocessor and a new resolver are
\* made, the prefix set is checked, and the index is built from the
\* registered commands; the ValueError of a conflict leaves the new
\* resolver without an index
Build ==
    LET collected == RemoveEmpty(FromKeys(reg_prefixes))
    IN /\ initialized' = TRUE
       /\ prefixes' = collected
       /\ IF ConflictPairs(collected) # {}
          THEN LET ij == FirstConflict(collected)
               IN /\ init_result' = [kind |-> "conflict",
                                     p1 |-> collected[ij[1]],
                                     p2 |-> collected[ij[2]]]
                  /\ index' = NewResolver(index)
          ELSE /\ init_result' = [kind |-> "ok", p1 |-> <<>>, p2 |-> <<>>]
               /\ index' = commands

\* a command decorator registers a command of a plugin, in a registry with
\* one prefix
register_command(name, prefix) ==
    /\ Len(reg_prefixes) < MaxPrefixes
    /\ reg_prefixes' = Append(reg_prefixes, prefix)
    /\ commands' = commands \cup {name}
    /\ UNCHANGED <<initialized, prefixes, index, init_result, delivered,
                   dispatch>>
    /\ UNCHANGED <<plugins, nextInst, inst_name, inst_state, closing,
                   unloaded, handlers_id, bus, nextHandler, unsubscribed,
                   invoked, func_plugin_map, replied, batch>>
    /\ UNCHANGED lifeVars
    /\ UNCHANGED outsideRegistry

\* the registries with a prefix are withdrawn
remove_prefix(prefix) ==
    /\ \E k \in 1..Len(reg_prefixes) : reg_prefixes[k] = prefix
    /\ reg_prefixes' = SelectSeq(reg_prefixes, LAMBDA x : x # prefix)
    /\ UNCHANGED <<initialized, prefixes, index, init_result, delivered,
                   dispatch>>
    /\ UNCHANGED pluginVars
    /\ UNCHANGED outsideRegistry

\* handle_plugin_load: "self._initialized = False", initialize_if_needed
handle_plugin_load ==
    /\ Build
    /\ UNCHANGED <<reg_prefixes, delivered, dispatch>>
    /\ UNCHANGED pluginVars
    /\ UNCHANGED outsideRegistry

\* run_command once the message is known to name a command: it resolves
\* when the command is in the index; bind comes first, its exception
\* publishes ncatbot.param_bind_failed; _execute_function then validates
\* the filters and calls the handler
RunCommand(idx, name, allow, bindable) ==
    [via |-> "service", resolved |-> name \in idx, allow |-> allow,
     bindable |-> bindable,
     bind_attempted |-> name \in idx,
     published |-> name \in idx /\ ~bindable,
     invoked |-> name \in idx /\ bindable /\ allow,
     raised |-> FALSE]

\* CommandRunner.run: as run_command, but the exception of bind is only
\* logged
RunnerRun(idx, name, allow, bindable) ==
    [via |-> "runner", resolved |-> name \in idx, allow |-> allow,
     bindable |-> bindable,
     bind_attempted |-> name \in idx,
     published |-> FALSE,
     invoked |-> name \in idx /\ bindable /\ allow,
     raised |-> FALSE]

\* _execute_function looks the plugin of the handler up (and caches it)
\* before the filters are validated
Executed(d, name) ==
    IF d.resolved /\ d.bindable
    THEN LET plugin == find_plugin_for_function(name)
         IN /\ func_plugin_map' = [func_plugin_map EXCEPT ![name] = plugin]
            /\ replied' = IF d.invoked THEN plugin ELSE replied
    ELSE UNCHANGED <<func_plugin_map, replied>>

\* handle_message_event for a message that names the command of a plugin:
\* initialize_if_needed (its ValueError ends the call), run_command, then
\* the pure filters, which are no commands
handle_message_event(name, allow, bindable) ==
    /\ delivered < MaxMessages
    /\ delivered' = delivered + 1
    /\ IF initialized
       THEN /\ UNCHANGED <<initialized, prefixes, index, init_result>>
            /\ dispatch' = RunCommand(index, name, allow, bindable)
            /\ Executed(dispatch', name)
       ELSE /\ Build
            /\ IF init_result'.kind = "conflict"
               THEN /\ dispatch' = [NoDispatch EXCEPT !.via = "service",
                                                      !.allow = allow,
                                                      !.bindable = bindable,
                                                      !.raised = TRUE]
                    /\ UNCHANGED <<func_plugin_map, replied>>
               ELSE /\ dispatch' = RunCommand(index', name, allow, bindable)
                    /\ Executed(dispatch', name)
    /\ UNCHANGED reg_prefixes
    /\ UNCHANGED <<plugins, nextInst, inst_name, inst_state, closing,
                   unloaded, handlers_id, bus, nextHandler, unsubscribed,
                   invoked, commands, batch>>
    /\ UNCHANGED lifeVars
    /\ UNCHANGED outsideRegistry

\* CommandRunner.run for a message that names the command of a plugin, on
\* a runner whose resolver holds the registered commands
CommandRunner_run(name, allow, bindable) ==
    /\ delivered < MaxMessages
    /\ delivered' = delivered + 1
    /\ dispatch' = RunnerRun(commands, name, allow, bindable)
    /\ Executed(dispatch', name)
    /\ UNCHANGED <<reg_prefixes, initialized, prefixes, index, init_result>>
    /\ UNCHANGED <<plugins, nextInst, inst_name, inst_state, closing,
                   unloaded, handlers_id, bus, nextHandler, unsubscribed,
                   invoked, commands, batch>>
    /\ UNCHANGED lifeVars
    /\ UNCHANGED outsideRegistry

\* registrations, rebuilds and messages
RegistryNext ==
    \/ \E name \in CommandOwners, prefix \in PrefixPool :
          register_command(name, prefix)
    \/ \E prefix \in PrefixPool : remove_prefix(prefix)
    \/ handle_plugin_load
    \/ \E name \in CommandOwners, allow \in BOOLEAN, bindable \in BOOLEAN :
          handle_message_event(name, allow, bindable)
    \/ \E name \in CommandOwners, allow \in BOOLEAN, bindable \in BOOLEAN :
          CommandRunner_run(name, allow, bindable)

(* ---------------------- LifecycleManager.run_backend ------------------ *)

BackendInit ==
    /\ main = "idle"
    /\ worker = "none"
    /\ lock = "none"
    /\ crash_flag = FALSE
    /\ api = FALSE
    /\ mock_mode = FALSE
    /\ signals = 0
    /\ returned_api = FALSE

\* mutant: the lock is created but not acquired
CreatedLock == "unlocked"

\* "self.lock = threading.Lock(); self.lock.acquire()"
AcquiredLock == "locked"

\* self.lock.release(): a RuntimeError when the lock is not held
Release(l) == IF l = "locked" THEN "unlocked" ELSE l

\* mutant: the except branch of run_async only sets the flag
KeepsLockOnCrash(l) == l

\* "if self.release_callback: self.release_callback(None)" in the except
\* branch of run_async
ReleaseOnCrash(l) == Release(l)

\* run_backend up to "self.lock.acquire(timeout=90)": the lock is made and
\* acquired, release_callback becomes a startup handler, the worker
\* thread is started
run_backend(mock) ==
    /\ main = "idle"
    /\ main' = "waiting"
    /\ lock' = AcquiredLock
    /\ worker' = "starting"
    /\ mock_mode' = mock
    /\ UNCHANGED <<crash_flag, api, signals, returned_api>>
    /\ UNCHANGED outsideBackend

\* start() up to the services: arguments applied, config validated, plugin
\* loader made, plugins loaded, NapCat launched
start_configured ==
    /\ worker = "starting"
    /\ worker' = "configured"
    /\ UNCHANGED <<main, lock, crash_flag, api, mock_mode, signals,
                   returned_api>>
    /\ UNCHANGED outsideBackend

\* _async_start up to "await router.websocket.listen()": the services are
\* loaded and the API handle and the dispatcher are made
async_start_listens ==
    /\ worker = "configured"
    /\ worker' = "listening"
    /\ api' = TRUE
    /\ UNCHANGED <<main, lock, crash_flag, mock_mode, signals,
                   returned_api>>
    /\ UNCHANGED outsideBackend

\* an exception other than NcatBotConnectionError leaves start()
start_raises ==
    /\ worker \in {"starting", "configured", "listening"}
    /\ worker' = "raised"
    /\ UNCHANGED <<main, lock, crash_flag, api, mock_mode, signals,
                   returned_api>>
    /\ UNCHANGED outsideBackend

\* NcatBotConnectionError inside _async_start (the WebSocket cannot be
\* opened, or it is lost): mock mode ignores it and start() returns,
\* otherwise bot_exit() and the error leaves start()
connection_error ==
    /\ worker \in {"configured", "listening"}
    /\ worker' = IF mock_mode THEN "returned" ELSE "raised"
    /\ UNCHANGED <<main, lock, crash_flag, api, mock_mode, signals,
                   returned_api>>
    /\ UNCHANGED outsideBackend

\* a startup event is dispatched while the bot listens: the startup
\* handlers run, release_callback among them
startup_event ==
    /\ worker = "listening"
    /\ signals < MaxStartups
    /\ signals' = signals + 1
    /\ lock' = Release(lock)
    /\ UNCHANGED <<main, worker, crash_flag, api, mock_mode, returned_api>>
    /\ UNCHANGED outsideBackend

\* listen() returns, and with it start() and the worker thread
listen_returns ==
    /\ worker = "listening"
    /\ worker' = "returned"
    /\ UNCHANGED <<main, lock, crash_flag, api, mock_mode, signals,
                   returned_api>>
    /\ UNCHANGED outsideBackend

\* "except Exception" of run_async: "self.crash_flag = True"
crash_flagged ==
    /\ worker = "raised"
    /\ worker' = "flagged"
    /\ crash_flag' = TRUE
    /\ UNCHANGED <<main, lock, api, mock_mode, signals, returned_api>>
    /\ UNCHANGED outsideBackend

\* ... then the release of the lock; the thread ends
crash_released ==
    /\ worker = "flagged"
    /\ worker' = "crashed"
    /\ lock' = ReleaseOnCrash(lock)
    /\ UNCHANGED <<main, crash_flag, api, mock_mode, signals, returned_api>>
    /\ UNCHANGED outsideBackend

\* "self.lock.acquire(timeout=90)" succeeds
main_acquired ==
    /\ main = "waiting"
    /\ lock = "unlocked"
    /\ lock' = "locked"
    /\ main' = "acquired"
    /\ UNCHANGED <<worker, crash_flag, api, mock_mode, signals,
                   returned_api>>
    /\ UNCHANGED outsideBackend

\* the 90 seconds pass with the lock held: NcatBotError("启动超时")
main_timeout ==
    /\ main = "waiting"
    /\ lock = "locked"
    /\ main' = "startup_timeout"
    /\ UNCHANGED <<worker, lock, crash_flag, api, mock_mode, signals,
                   returned_api>>
    /\ UNCHANGED outsideBackend

\* "if self.crash_flag: raise NcatBotError("启动失败")", else
\* "return self.api"
main_returns ==
    /\ main = "acquired"
    /\ IF crash_flag
       THEN /\ main' = "startup_failed"
            /\ UNCHANGED returned_api
       ELSE /\ main' = "returned"
            /\ returned_api' = api
    /\ UNCHANGED <<worker, lock, crash_flag, api, mock_mode, signals>>
    /\ UNCHANGED outsideBackend

BackendNext ==
    \/ \E mock \in BOOLEAN : run_backend(mock)
    \/ start_configured
    \/ async_start_listens
    \/ start_raises
    \/ connection_error
    \/ startup_event
    \/ listen_returns
    \/ crash_flagged
    \/ crash_released
    \/ main_acquired
    \/ main_timeout
    \/ main_returns

(* ---------------------- ConfigManager, NapCatConfig -------------------- *)

\* strings are sequences of one-character strings
DEFAULT_WS_TOKEN == <<"n", "a", "p", "c", "a", "t", "_", "w", "s">>
DEFAULT_WEBUI_TOKEN ==
    <<"n", "a", "p", "c", "a", "t", "_", "w", "e", "b", "u", "i">>
DEFAULT_BOT_UIN == <<"1", "2", "3", "4", "5", "6">>

Digits == {"0", "1", "2", "3", "4", "5", "6", "7", "8", "9"}
LowerCase == {"a", "b", "c", "d", "e", "f", "g", "h", "i", "j", "k", "l",
              "m", "n", "o", "p", "q", "r", "s", "t", "u", "v", "w", "x",
              "y", "z"}
UpperCase == {"A", "B", "C", "D", "E", "F", "G", "H", "I", "J", "K", "L",
              "M", "N", "O", "P", "Q", "R", "S", "T", "U", "V", "W", "X",
              "Y", "Z"}
SpecialChars == {"!", "@", "#", "$", "%", "^", "&", "*", "(", ")", "_",
                 "+", "-", "=", "[", "]", "{", "}", "|", ";", ":", ",",
                 ".", "<", ">", "?"}

\* re.search of a character class
Search(class, password) ==
    \E k \in 1..Len(password) : password[k] \in class

strong_password_check(password) ==
    /\ Len(password) >= MinPasswordLength
    /\ \A class \in {Digits, LowerCase, UpperCase, SpecialChars} :
          Search(class, password)

\* tokens a config file may hold: the two defaults, "Abcdefg123!",
\* "Abcdefgh1234" and "Abcdefgh123!"
WsTokens ==
    {DEFAULT_WS_TOKEN,
     <<"A", "b", "c", "d", "e", "f", "g", "1", "2", "3", "!">>,
     <<"A", "b", "c", "d", "e", "f", "g", "h", "1", "2", "3", "4">>,
     <<"A", "b", "c", "d", "e", "f", "g", "h", "1", "2", "3", "!">>}
WebuiTokens ==
    {DEFAULT_WEBUI_TOKEN,
     <<"A", "b", "c", "d", "e", "f", "g", "h", "1", "2", "3", "4">>,
     <<"A", "b", "c", "d", "e", "f", "g", "h", "1", "2", "3", "!">>}
ListenIps == {"localhost", "0.0.0.0"}

\* QQ numbers a config file may hold: the default and "10001"
FileUins == {DEFAULT_BOT_UIN, <<"1", "0", "0", "0", "1">>}
\* what the user types when asked for the QQ number: "10001", "abc", ""
UinInputs == {<<"1", "0", "0", "0", "1">>, <<"a", "b", "c">>, <<>>}
\* what the user types when asked whether to repair the tokens
Answers == {"y", "YES", "n", ""}

\* draws of "".join(random.choice(all_chars) for _ in range(length))
RandomDraws ==
    {<<"A", "b", "c", "d", "e", "f", "g", "h", "i", "j", "k", "l", "1",
       "2", "3", "!">>,
     <<"a", "B", "3", "$", "a", "B", "3", "$", "a", "B", "3", "$", "a",
       "B", "3", "$">>,
     <<"a", "b", "c", "d", "e", "f", "g", "h", "i", "j", "k", "l", "m",
       "n", "o", "p">>}

\* generate_strong_password: draws until a draw passes the check
generate_strong_password ==
    {p \in RandomDraws :
        Len(p) = GeneratedLength /\ strong_password_check(p)}

\* str.isdigit
isdigit(value) ==
    /\ Len(value) > 0
    /\ \A k \in 1..Len(value) : value[k] \in Digits

\* str.lower on the answers
Lower(answer) == IF answer = "YES" THEN "yes" ELSE answer

ConfigInit ==
    /\ ws_listen_ip = "localhost"
    /\ ws_token = DEFAULT_WS_TOKEN
    /\ webui_token = DEFAULT_WEBUI_TOKEN
    /\ enable_webui = TRUE
    /\ bt_uin = DEFAULT_BOT_UIN
    /\ validation = "unloaded"
    /\ consent = FALSE
    /\ generated = FALSE

\* the list get_security_issues builds before it looks at can_auto_fix
SecurityIssues ==
    (IF /\ ws_listen_ip = "0.0.0.0"
        /\ ~strong_password_check(ws_token)
        /\ ws_token # DEFAULT_WS_TOKEN
     THEN <<"ws">> ELSE <<>>)
    \o (IF /\ enable_webui
           /\ ~strong_password_check(webui_token)
           /\ webui_token # DEFAULT_WEBUI_TOKEN
        THEN <<"webui">> ELSE <<>>)

\* fix_security_issues: both tokens are generated anew
fix_security_issues ==
    /\ ws_token' \in generate_strong_password
    /\ webui_token' \in generate_strong_password
    /\ generated' = TRUE

\* the config property of the manager loads the file on first use
load_config(ip, wt, webt, webui, uin) ==
    /\ validation = "unloaded"
    /\ validation' = "loaded"
    /\ ws_listen_ip' = ip
    /\ ws_token' = wt
    /\ webui_token' = webt
    /\ enable_webui' = webui
    /\ bt_uin' = uin
    /\ UNCHANGED <<consent, generated>>
    /\ UNCHANGED outsideConfig

\* ConfigManager.get_issues: napcat.get_issues() is
\* get_security_issues(auto_fix=True), which repairs the tokens when no
\* issue was listed
get_issues ==
    /\ validation = "loaded"
    /\ IF SecurityIssues = <<>>
       THEN fix_security_issues
       ELSE UNCHANGED <<ws_token, webui_token, generated>>
    /\ UNCHANGED <<ws_listen_ip, enable_webui, bt_uin, validation, consent>>
    /\ UNCHANGED outsideConfig

\* the first try whose input is a number, 0 when there is none
FirstValid(inputs) ==
    IF \E k \in 1..UinTries : isdigit(inputs[k])
    THEN CHOOSE k \in 1..UinTries :
            /\ isdigit(inputs[k])
            /\ \A j \in 1..(k - 1) : ~isdigit(inputs[j])
    ELSE 0

\* fix_invalid_config: inputs are the answers to the QQ number prompt,
\* answer is the answer to the token prompt
fix_invalid_config(inputs, answer) ==
    /\ validation = "loaded"
    /\ IF bt_uin = DEFAULT_BOT_UIN /\ FirstValid(inputs) = 0
       THEN /\ validation' = "uin_error"
            /\ UNCHANGED <<bt_uin, ws_token, webui_token, consent,
                           generated>>
       ELSE /\ bt_uin' = IF bt_uin = DEFAULT_BOT_UIN
                         THEN inputs[FirstValid(inputs)]
                         ELSE bt_uin
            /\ IF SecurityIssues # <<>>
               THEN IF Lower(answer) \in {"y", "yes"}
                    THEN /\ consent' = TRUE
                         /\ fix_security_issues
                         /\ validation' = "passed"
                    ELSE /\ validation' = "refused"
                         /\ UNCHANGED <<ws_token, webui_token, consent,
                                        generated>>
               ELSE /\ validation' = "passed"
                    /\ UNCHANGED <<ws_token, webui_token, consent,
                                   generated>>
    /\ UNCHANGED <<ws_listen_ip, enable_webui>>
    /\ UNCHANGED outsideConfig

ConfigNext ==
    \/ \E ip \in ListenIps, wt \in WsTokens, webt \in WebuiTokens,
          webui \in BOOLEAN, uin \in FileUins :
          load_config(ip, wt, webt, webui, uin)
    \/ get_issues
    \/ \E inputs \in [1..UinTries -> UinInputs], answer \in Answers :
          fix_invalid_config(inputs, answer)

(* -------------------- TimeTaskScheduler, TimeTaskMixin ----------------- *)

NoTick == [name |-> "none", owner |-> NoInst, called |-> FALSE,
           removed |-> FALSE]

TaskInit ==
    /\ jobs = <<>>
    /\ time_task_jobs = [i \in Insts |-> <<>>]
    /\ ticks = 0
    /\ last_tick = NoTick

\* truth value of max_runs: None and 0 are false
Truthy(max_runs) == max_runs # NoMaxRuns /\ max_runs # 0

\* any(job["name"] == name for job in self._jobs)
HasJob(js, name) == \E k \in 1..Len(js) : js[k].name = name

\* self._jobs.remove(job) for the job of that name
remove_job(js, name) == SelectSeq(js, LAMBDA job : job.name # name)

\* TimeTaskScheduler.add_job: False for a name that is taken and for a
\* one-shot time with max_runs other than 1, whose ValueError is caught;
\* field called counts the calls of the task function
add_job(js, owner, name, once, max_runs) ==
    IF HasJob(js, name)
    THEN js
    ELSE IF once /\ Truthy(max_runs) /\ max_runs # 1
    THEN js
    ELSE Append(js, [name |-> name, owner |-> owner,
                     max_runs |-> IF once THEN 1 ELSE max_runs,
                     run_count |-> 0, called |-> 0])

\* job_info["max_runs"] and job_info["run_count"] >= job_info["max_runs"]
AtLimit(job) ==
    Truthy(job.max_runs) /\ job.run_count >= job.max_runs

\* add_scheduled_task of a loaded plugin: the name is noted by the plugin,
\* then the job is handed to the scheduler
add_scheduled_task(i, name, once, max_runs) ==
    /\ Running(i)
    /\ Len(time_task_jobs[i]) < MaxTaskAdds
    /\ time_task_jobs' = [time_task_jobs EXCEPT ![i] = Append(@, name)]
    /\ jobs' = add_job(jobs, i, name, once, max_runs)
    /\ UNCHANGED <<ticks, last_tick>>
    /\ UNCHANGED outsideTasks

\* remove_scheduled_task of a loaded plugin
remove_scheduled_task(i, name) ==
    /\ Running(i)
    /\ HasJob(jobs, name)
    /\ jobs' = remove_job(jobs, name)
    /\ UNCHANGED <<time_task_jobs, ticks, last_tick>>
    /\ UNCHANGED outsideTasks

\* step(): run_pending runs job_wrapper of the due job k; cond is the
\* outcome of the conditions, raises that of the task function.
\* TaskExecutor.execute is the same code on the job list of the service.
step(k, cond, raises) ==
    /\ k \in 1..Len(jobs)
    /\ ticks < MaxTicks
    /\ ticks' = ticks + 1
    /\ LET job == jobs[k] IN
       IF AtLimit(job)
       THEN /\ jobs' = remove_job(jobs, job.name)
            /\ last_tick' = [name |-> job.name, owner |-> job.owner,
                             called |-> FALSE, removed |-> TRUE]
       ELSE IF ~cond
       THEN /\ last_tick' = [name |-> job.name, owner |-> job.owner,
                             called |-> FALSE, removed |-> FALSE]
            /\ UNCHANGED jobs
       ELSE /\ last_tick' = [name |-> job.name, owner |-> job.owner,
                             called |-> TRUE, removed |-> FALSE]
            /\ jobs' = [jobs EXCEPT
                           ![k].called = @ + 1,
                           ![k].run_count = IF raises THEN @ ELSE @ + 1]
    /\ UNCHANGED time_task_jobs
    /\ UNCHANGED outsideTasks

\* a plugin that schedules tasks without a limit, is unloaded and loaded
\* again
TaskNext ==
    \/ \E name \in SingleLoads : nextInst < MaxTaskInst /\ load_plugin(name)
    \/ \E i \in Insts : on_load_begins(i)
    \/ \E i \in Insts : on_load_returns(i)
    \/ \E i \in Insts, name \in TaskNames :
          add_scheduled_task(i, name, FALSE, NoMaxRuns)
    \/ \E i \in Insts, name \in TaskNames : remove_scheduled_task(i, name)
    \/ \E k \in 1..Cardinality(TaskNames) : step(k, TRUE, FALSE)
    \/ \E name \in Names : unload_begin(name)
    \/ \E i \in Insts : unload_end(i, FALSE)

\* one loaded plugin and the scheduler, over every kind of task
SchedulerNext ==
    \/ \E name \in SingleLoads : nextInst = 0 /\ load_plugin(name)
    \/ \E i \in Insts : on_load_begins(i)
    \/ \E i \in Insts : on_load_returns(i)
    \/ \E i \in Insts, name \in TaskNames, once \in BOOLEAN,
          max_runs \in MaxRunsPool :
          add_scheduled_task(i, name, once, max_runs)
    \/ \E i \in Insts, name \in TaskNames : remove_scheduled_task(i, name)
    \/ \E k \in 1..Cardinality(TaskNames), cond \in BOOLEAN,
          raises \in BOOLEAN : step(k, cond, raises)

(* ------------------ LifecycleManager.start, bot_exit ------------------ *)

ExitInit ==
    /\ running = FALSE
    /\ status_exit = FALSE
    /\ exit_calls = 0
    /\ shutdowns = 0

\* start() up to "self._running = True": the arguments are applied, the
\* plugin loader is made; the plugins are loaded after it
start ==
    /\ ~running
    /\ running' = TRUE
    /\ UNCHANGED <<status_exit, exit_calls, shutdowns>>
    /\ UNCHANGED <<routerVars, rbacVars, pluginVars, registryVars,
                   backendVars, configVars, taskVars, executeVars>>

\* bot_exit: nothing but a warning when the bot is not running; else
\* status.exit, services.close_all, and plugin_loader.unload_all, whose
\* unload_plugin coroutines are the steps that follow.  The call blocks
\* until unload_all has returned.
bot_exit ==
    /\ exit_calls < MaxExits
    /\ unload_all.result # "running"
    /\ exit_calls' = exit_calls + 1
    /\ IF ~running
       THEN UNCHANGED <<status_exit, shutdowns, unload_all>>
       ELSE /\ status_exit' = TRUE
            /\ shutdowns' = shutdowns + 1
            /\ unload_all' = [order |-> plugin_order, next |-> 1,
                              insts |-> {}, result |-> "running"]
    /\ UNCHANGED running
    /\ UNCHANGED <<plugins, nextInst, inst_name, inst_state, closing,
                   unloaded, handlers_id, bus, nextHandler, unsubscribed,
                   invoked, commands, func_plugin_map, replied, batch>>
    /\ UNCHANGED <<config, data_file, first_load, close_raised, held,
                   plugin_order>>
    /\ UNCHANGED <<routerVars, rbacVars, registryVars, backendVars,
                   configVars, taskVars, executeVars>>

\* a bot that is started, loads plugins and is told to exit
LifecycleNext ==
    \/ start
    \/ \E name \in LifeNames : running /\ load_plugin(name)
    \/ \E i \in Insts : on_load_begins(i)
    \/ \E i \in Insts : on_load_returns(i)
    \/ bot_exit
    \/ unload_all_task
    \/ \E i \in Insts : unload_end(i, FALSE)
    \/ unload_all_end

(* --------------- handle_message_event, _execute_function -------------- *)

outsideExecute == <<routerVars, rbacVars, pluginVars, registryVars,
                    backendVars, configVars, taskVars, exitVars>>

ExecuteInit ==
    /\ functions = <<>>
    /\ handling = "idle"
    /\ cursor = 0
    /\ called = {}
    /\ logged = {}

\* mutant: _execute_function without its try
Reraised(effect) == effect \in {"filter_raises", "raises"}

\* "except Exception" of _execute_function: the error is logged and False
\* is returned, nothing leaves the call
Escapes(effect) == FALSE

\* the body of a function is entered when its filters let the event pass
Enters(effect) == effect \in {"returns", "raises"}

\* the except branch of _execute_function logs what validate_filters or
\* the function raised
Logs(effect) == effect \in {"filter_raises", "raises"}

\* _execute_function(func, event) for the k-th function
execute_function(k) ==
    /\ called' = IF Enters(functions[k].outcome)
                 THEN called \cup {k} ELSE called
    /\ logged' = IF Logs(functions[k].outcome)
                 THEN logged \cup {k} ELSE logged

\* a decorator registers a user function: a command that the message
\* names (one at most) or a function filter
register_function(is_command, effect) ==
    /\ handling = "idle"
    /\ Len(functions) < MaxFuncs
    /\ is_command => \A k \in 1..Len(functions) : ~functions[k].is_command
    /\ functions' = Append(functions, [is_command |-> is_command,
                                       outcome |-> effect])
    /\ UNCHANGED <<handling, cursor, called, logged>>
    /\ UNCHANGED outsideExecute

\* handle_message_event up to the await inside run_command
message_event_arrives ==
    /\ handling = "idle"
    /\ functions # <<>>
    /\ handling' = "run_command"
    /\ UNCHANGED <<functions, cursor, called, logged>>
    /\ UNCHANGED outsideExecute

\* run_command: the command that the message names, when there is one, is
\* run by _execute_function; what leaves that call is printed by
\* run_command itself; run_pure_filters begins
run_command_hit ==
    /\ handling = "run_command"
    /\ IF \E k \in 1..Len(functions) : functions[k].is_command
       THEN execute_function(
               CHOOSE k \in 1..Len(functions) : functions[k].is_command)
       ELSE UNCHANGED <<called, logged>>
    /\ handling' = "run_pure_filters"
    /\ cursor' = 1
    /\ UNCHANGED functions
    /\ UNCHANGED outsideExecute

\* one turn of the loop of run_pure_filters: commands are skipped, the
\* function is run by _execute_function; an exception that leaves
\* _execute_function leaves the loop and handle_message_event
run_pure_filters_turn ==
    /\ handling = "run_pure_filters"
    /\ cursor <= Len(functions)
    /\ IF functions[cursor].is_command
       THEN /\ UNCHANGED <<called, logged, handling>>
            /\ cursor' = cursor + 1
       ELSE /\ execute_function(cursor)
            /\ IF Escapes(functions[cursor].outcome)
               THEN /\ handling' = "raised"
                    /\ UNCHANGED cursor
               ELSE /\ UNCHANGED handling
                    /\ cursor' = cursor + 1
    /\ UNCHANGED functions
    /\ UNCHANGED outsideExecute

\* the loop is over: handle_message_event returns
message_event_returns ==
    /\ handling = "run_pure_filters"
    /\ cursor > Len(functions)
    /\ handling' = "returned"
    /\ UNCHANGED <<functions, cursor, called, logged>>
    /\ UNCHANGED outsideExecute

\* user functions are registered, then one message is handled
ExecuteNext ==
    \/ \E is_command \in BOOLEAN, effect \in Outcomes :
          register_function(is_command, effect)
    \/ message_event_arrives
    \/ run_command_hit
    \/ run_pure_filters_turn
    \/ message_event_returns

(* ---------------------------- specifications -------------------------- *)

InitRBAC ==
    /\ RouterInit /\ RBACInit /\ PluginInit /\ RegistryInit
    /\ BackendInit /\ ConfigInit /\ TaskInit /\ ExitInit /\ ExecuteInit

\* the router, next to an idle RBAC service
Init == InitRBAC /\ default_role = NoRole
Next == RouterNext
Spec == Init /\ [][Next]_vars

\* the router under the scheduling of the event loop: a ready task is
\* resumed, a write completes, an armed timer expires
Fairness ==
    /\ WF_vars(send_wakeup)
    /\ \A c \in Calls : WF_vars(send_write(c))
    /\ \A c \in Calls : WF_vars(send_timeout(c))
LiveSpec == Init /\ [][Next]_vars /\ Fairness

\* the RBAC service
SpecRBAC == InitRBAC /\ [][RBACNext]_vars

\* the role graph alone, on more roles
SpecRoles == InitRBAC /\ [][RoleGraphNext]_vars

\* the plugin loader, its plugins, the event bus and the command registry
SpecPlugins == Init /\ [][PluginNext]_vars

\* load_all_plugins_by_class
SpecBatch == Init /\ [][BatchNext]_vars

\* reload cycles of one plugin
SpecReload == Init /\ [][ReloadNext]_vars

\* plugins loaded one by one, then unload_all
SpecUnloadAll == Init /\ [][UnloadAllNext]_vars

\* the command index and the dispatch of messages
SpecRegistry == Init /\ [][RegistryNext]_vars

\* one run_backend call and its worker thread
SpecBackend == Init /\ [][BackendNext]_vars

\* one config, loaded and validated
SpecConfig == Init /\ [][ConfigNext]_vars

\* the scheduled tasks of a plugin
SpecTasks == Init /\ [][TaskNext]_vars

\* the scheduler and the run limits
SpecScheduler == Init /\ [][SchedulerNext]_vars

\* start and bot_exit
SpecLifecycle == Init /\ [][LifecycleNext]_vars

\* the user functions of one message
SpecExecute == Init /\ [][ExecuteNext]_vars

(* ------------------------------- router claims ------------------------- *)

IsPrefix(s, t) ==
    /\ Len(s) <= Len(t)
    /\ \A i \in 1..Len(s) : s[i] = t[i]

Done(c) == pc[c] = "done"
InTable(c) == \E e \in Echoes : pending_futures[e] = c

\* C1: a send() that returns a response returns the frame that carries the
\* echo allocated for that call, never the frame of another call.
C1_ResponseEchoMatches ==
    \A c \in Calls :
        outcome[c] = "response" => result[c] # NoEcho /\ result[c] = echo[c]

\* two calls have both returned a response
C1_Witness ==
    \E a, b \in Calls :
        a # b /\ outcome[a] = "response" /\ outcome[b] = "response"

\* C2: once a send() has finished, whatever its outcome, the table holds
\* no entry for the echo of that call.
C2_NoEntryAfterSend ==
    \A c \in Calls :
        Done(c) => /\ ~InTable(c)
                   /\ echo[c] # NoEcho => pending_futures[echo[c]] = NoFuture

\* calls have finished by timeout, by cancellation and by a failed write
C2_Witness ==
    \E a, b, c \in Calls :
        /\ Done(a) /\ outcome[a] = "timeout"
        /\ Done(b) /\ outcome[b] = "cancelled"
        /\ Done(c) /\ outcome[c] = "not_connected" /\ echo[c] # NoEcho

\* C3: responses are matched by echo in any arrival order: calls return in
\* the order in which their responses arrived, each with its own frame, and
\* a call that is waiting blocks neither the write nor the return of
\* another call.
C3_OutOfOrderResponses ==
    /\ IsPrefix([i \in 1..Len(returned) |-> echo[returned[i]]], arrived)
    /\ \A c \in Calls : Done(c) /\ outcome[c] = "response" =>
                             result[c] = echo[c]
    /\ \A c \in Calls : pc[c] = "writing" => ENABLED send_write(c)
    /\ ready # <<>> => ENABLED send_wakeup

\* B, issued after A, has returned its response while A is still waiting
C3_Witness ==
    \E a, b \in Calls :
        /\ a < b
        /\ pc[a] = "waiting" /\ fut[a] = "pending"
        /\ Done(b) /\ outcome[b] = "response" /\ result[b] = echo[b]

\* C4: every send() that was started finishes.
C4_SendCompletes ==
    \A c \in Calls : (pc[c] \in {"writing", "waiting"}) ~> Done(c)

\* a call has ended by timeout: its frame was written and never answered
C4_Witness ==
    \E c \in Calls :
        /\ Done(c) /\ outcome[c] = "timeout"
        /\ echo[c] \in wire /\ echo[c] \notin answered

\* a frame with this echo arrives after the call has timed out
LateResponse(data) ==
    \E c \in Calls : Done(c) /\ outcome[c] = "timeout" /\ echo[c] = data

\* C5 as stated: the response to a call that has timed out is never
\* handed to the event callback.
C5_LateResponseDropped ==
    \A c \in Calls : outcome[c] = "timeout" => echo[c] \notin handed

\* C5 as amended: a response that arrives after its send() has timed out
\* completes no call and settles no future; the router treats it as an
\* uncorrelated frame and hands it to the event callback in a new task.
C5_LateResponseForwarded ==
    [][\A data \in Echoes :
          on_message(data) /\ LateResponse(data) =>
              /\ UNCHANGED <<fut, futResult, ready, pc, outcome, result,
                             pending_futures>>
              /\ data \in handed'
              /\ cbSpawned' = cbSpawned + 1]_vars

\* the response to a timed-out call has been handed to the callback
C5_Witness ==
    \E c \in Calls :
        Done(c) /\ outcome[c] = "timeout" /\ echo[c] \in handed

\* C6: a frame goes to exactly one destination: to the completion slot of
\* the live pending request its echo names, else to the event callback, in
\* a task of its own that the receive loop does not wait for.
C6_ExactlyOneDestination ==
    /\ [][\A data \in Frames :
            on_message(data) =>
                LET future == IF data \in Echoes THEN pending_futures[data]
                              ELSE NoFuture
                IN IF future # NoFuture /\ fut[future] = "pending"
                   THEN /\ fut'[future] = "result"
                        /\ futResult'[future] = data
                        /\ cbSpawned' = cbSpawned /\ handed' = handed
                   ELSE /\ fut' = fut /\ futResult' = futResult
                        /\ cbSpawned' = cbSpawned + 1
                        /\ data \in handed']_vars
    /\ [](\A data \in Frames :
            listening /\ wsConnected /\ CanArrive(data)
                => ENABLED on_message(data))

\* a frame was delivered to a slot and an event frame was handed over while
\* a callback task is still running
C6_Witness ==
    /\ arrived # <<>>
    /\ NoEcho \in handed
    /\ cbDone < cbSpawned
    /\ \E data \in Frames : listening /\ wsConnected /\ CanArrive(data)

C8_SendNotReady ==
    [][\A c \in Calls :
          send_start(c) /\ ~wsConnected =>
              /\ pc'[c] = "done"
              /\ outcome'[c] = "not_connected"
              /\ wire' = wire
              /\ \A e \in Echoes : pending_futures'[e] # c]_vars

\* sends have failed before the connection was made and after close()
C8_Witness ==
    /\ svc = "closed"
    /\ \E a, b \in Calls :
           /\ a # b
           /\ outcome[a] = "not_connected" /\ echo[a] # NoEcho
           /\ outcome[b] = "not_connected" /\ echo[b] = NoEcho
           /\ wire = {}

(* -------------------------------- RBAC claims -------------------------- *)

\* the roles in S with all their ancestors in the inheritance graph
RECURSIVE Ancestors(_)
Ancestors(S) ==
    LET T == S \cup {e[2] : e \in {x \in role_inheritance : x[1] \in S}}
    IN IF T = S THEN S ELSE Ancestors(T)

\* the user, or a role the user holds directly or through inheritance,
\* black-lists a pattern that matches the path
BlackListed(user, path) ==
    /\ user \in DOMAIN users
    /\ \/ \E b \in users[user].blacklist : Matches(b, path)
       \/ \E r \in Ancestors(users[user].roles) \cap DOMAIN roles :
              \E b \in roles[r].blacklist : Matches(b, path)

WhiteListed(user, path) ==
    /\ user \in DOMAIN users
    /\ \/ \E w \in users[user].whitelist : Matches(w, path)
       \/ \E r \in Ancestors(users[user].roles) \cap DOMAIN roles :
              \E w \in roles[r].whitelist : Matches(w, path)

\* C9: check(u, p) returns false whenever u or a role u holds, directly or
\* through inheritance, black-lists a pattern matching p, whatever the
\* white-lists say.
C9_BlackListWins ==
    (ret.op = "check" /\ ret.ok /\ BlackListed(ret.user, ret.perm))
        => ret.value = FALSE

\* a check was denied by the black-list of a role the user only inherits,
\* although a white-list entry matches the path too
C9_Witness ==
    /\ ret.op = "check" /\ ret.ok /\ ret.value = FALSE
    /\ WhiteListed(ret.user, ret.perm)
    /\ \A b \in users[ret.user].blacklist : ~Matches(b, ret.perm)
    /\ \A r \in users[ret.user].roles \cap DOMAIN roles :
           \A b \in roles[r].blacklist : ~Matches(b, ret.perm)
    /\ BlackListed(ret.user, ret.perm)

\* C10: the role inheritance graph never contains a cycle.
C10_Acyclic ==
    \A r \in Roles \cup GraphRoles :
        r \notin Ancestors(Parents(role_inheritance, r))

\* the graph holds a chain r -> a -> b and the latest call was rejected
C10_Witness ==
    /\ ret.op = "cycle" /\ ~ret.ok
    /\ \E r, a, b \in GraphRoles :
           /\ r # a /\ a # b /\ r # b
           /\ {<<r, a>>, <<a, b>>} \subseteq role_inheritance
           /\ would_create_cycle(role_inheritance, b, r)

\* C11: a set_role_inheritance(role, parent) call whose edge would close a
\* cycle (role is parent, or role is reachable from parent through the
\* inheritance edges) raises, and roles, users, the role-users index, the
\* inheritance map and the permissions are what they were before the call.
C11_CycleRejectedKeepsState ==
    [][\A r \in GraphRoles, p \in GraphRoles :
           (set_role_inheritance(r, p) /\ r \in Ancestors({p}))
               => (~ret'.ok /\ rbacState' = rbacState)]_vars

\* a call was rejected for a cycle on a graph that has edges
C11_Witness ==
    /\ ret.op = "cycle" /\ ~ret.ok
    /\ role_inheritance # {}
    /\ \E e \in role_inheritance :
           e[1] \in DOMAIN roles /\ e[2] \in DOMAIN roles

\* C12: check is default-closed: check(u, p) returns false whenever no
\* white-list pattern of u, or of a role u holds directly or through
\* inheritance, matches p; a user without any grant is denied everything.
C12_DefaultClosed ==
    (ret.op = "check" /\ ret.ok /\ ~WhiteListed(ret.user, ret.perm))
        => ret.value = FALSE

\* a check was denied although nothing black-lists the path: the user holds
\* a role with a white-list entry, but the entry does not match the path
C12_Witness ==
    /\ ret.op = "check" /\ ret.ok /\ ret.value = FALSE
    /\ ~BlackListed(ret.user, ret.perm)
    /\ ~WhiteListed(ret.user, ret.perm)
    /\ \E r \in users[ret.user].roles \cap DOMAIN roles :
           roles[r].whitelist # {}

\* C13: a permission white-listed on a role is granted to every user that
\* holds a role inheriting from it through any number of inheritance edges,
\* provided no black-list pattern of the user or of its roles matches.
C13_InheritedGrant ==
    (/\ ret.op = "check" /\ ret.ok
     /\ WhiteListed(ret.user, ret.perm)
     /\ ~BlackListed(ret.user, ret.perm))
        => ret.value = TRUE

\* S3: root inherits admin inherits user, the matching white-list entry is
\* on a role two edges above the only role the checked user holds
C13_Witness ==
    /\ ret.op = "check" /\ ret.ok /\ ret.value = TRUE
    /\ users[ret.user].whitelist = {}
    /\ \E root, admin, top \in Roles :
           /\ root # admin /\ admin # top /\ root # top
           /\ users[ret.user].roles = {root}
           /\ {<<root, admin>>, <<admin, top>>} \subseteq role_inheritance
           /\ roles[root].whitelist = {} /\ roles[admin].whitelist = {}
           /\ \E w \in roles[top].whitelist : Matches(w, ret.perm)

(* ------------------------------ plugin claims -------------------------- *)

\* C14: while a plugin is loaded every subscription id it owns is live on
\* the event bus, and once unload(plugin) has completed its owned-id set is
\* empty, so that none of its subscriptions remains on the bus.
C14_OwnedSubscriptionsLive ==
    \A i \in Insts :
        /\ i \notin unloaded => handlers_id[i] \subseteq bus
        /\ i \in unloaded => handlers_id[i] = {}

\* C15: when unload(plugin) has completed the plugin owns no command spec,
\* and a later message that matches one of its commands, while the plugin
\* is not loaded, runs no handler of the plugin and produces no reply.
C15_NoCommandsAfterUnload ==
    [][/\ \A i \in Insts :
             (\E notify \in BOOLEAN : unload_end(i, notify))
                 => inst_name[i] \notin commands'
       /\ \A name \in Names :
             (run_command(name) /\ plugins[name] = NoInst)
                 => replied' = NoInst]_vars

\* C16: once a subscription has been unsubscribed, by unregister_handler
\* or by the unload of its plugin, no publish that starts afterwards
\* invokes its handler.
C16_NoInvokeAfterUnsubscribe ==
    [][publish => invoked' \cap unsubscribed = {}]_vars

\* a publish ran the handler that was still subscribed, after another
\* subscription had been removed
C16_Witness ==
    /\ unsubscribed # {}
    /\ invoked # {}
    /\ invoked \cap unsubscribed = {}

\* C20: if the on_load hook of a plugin raises, the plugin is unregistered:
\* the loader's table does not hold it and none of the subscriptions it
\* registered is live on the bus.
C20_FailedLoadUnregisters ==
    \A i \in Insts :
        inst_state[i] = "failed" =>
            /\ plugins[inst_name[i]] # i
            /\ handlers_id[i] \cap bus = {}

\* the declared dependencies of a plugin of the batch are installed with
\* it, at versions inside the declared ranges
DependenciesMet(names, name) ==
    \A dep \in Dependencies(name) :
        dep \in names /\ Satisfies(Constraint(name, dep), Version(dep))

ValidationFailed(b) == b.result \in {"dependency_error", "version_error"}

\* C17: during batch loading the on_load hook of a plugin begins only
\* after the on_load hook of every plugin it declares as a dependency has
\* returned.
C17_OnLoadAfterDependencies ==
    [][\A i \in Insts :
           (on_load_begins(i) /\ i \in batch.insts)
               => \A dep \in Dependencies(inst_name[i]) :
                      /\ plugins[dep] # NoInst
                      /\ inst_state[plugins[dep]] = "ready"]_vars

\* C18: the validation of a batch fails exactly when a declared dependency
\* is absent or installed at a version outside the declared range, and a
\* failure is raised before any plugin instance of the batch is
\* constructed.
C18_ValidationExact ==
    /\ ValidationFailed(batch) <=>
           (batch.result # "none"
            /\ \E name \in batch.names : ~DependenciesMet(batch.names, name))
    /\ ValidationFailed(batch) => batch.insts = {}

\* C19: when a batch has ended in which some plugin has a missing or
\* out-of-range dependency, every plugin of the batch whose own
\* dependencies are met is loaded (S4: A loads although C fails).
C19_OthersStillLoad ==
    [][(/\ batch' # batch
        /\ batch'.result \in {"ok", "dependency_error", "version_error"}
        /\ \E name \in batch'.names : ~DependenciesMet(batch'.names, name))
           => \A name \in batch'.names :
                  DependenciesMet(batch'.names, name)
                      => plugins'[name] # NoInst]_vars

(* --------------------------- unload and reload ------------------------- *)

\* the step that ends the unload_plugin call of instance i
UnloadEnds(i) == i \in closing /\ i \notin closing'

\* C21: an exception raised by the on_close hook is logged and does not
\* abort the unload: the config of that plugin is written to its data file
\* and the plugin leaves the loader's table, and when unload_all returns,
\* every instance it unloaded has left the table and has its file written.
C21_OnCloseFailureDoesNotAbort ==
    [][/\ \A i \in Insts :
             (UnloadEnds(i) /\ i \in close_raised)
                => /\ data_file'[inst_name[i]] # NoFile
                   /\ yaml_safe_load(data_file'[inst_name[i]]) = config[i]
                   /\ plugins'[inst_name[i]] = NoInst
       /\ (unload_all.result = "running" /\ unload_all'.result = "done")
             => \A i \in unload_all.insts :
                   /\ plugins'[inst_name[i]] # i
                   /\ data_file'[inst_name[i]] # NoFile]_vars

\* unload_all has returned after unloading two plugins, one of which held a
\* non-empty config and raised in on_close
C21_Witness ==
    /\ unload_all.result = "done"
    /\ Cardinality(unload_all.insts) >= 2
    /\ \E i \in unload_all.insts :
          /\ i \in close_raised
          /\ config[i] # EmptyConfig
          /\ plugins[inst_name[i]] = NoInst

\* instance i is the one in the table and every earlier instance of its
\* plugin has been unloaded: i was loaded after the latest unload ended
LoadedAfterUnload(i) ==
    /\ plugins[inst_name[i]] = i
    /\ held[inst_name[i]] # NoConfig
    /\ \A j \in 1..nextInst :
          (j # i /\ inst_name[j] = inst_name[i]) => j \in unloaded

C30_ReverseTopologicalUnload ==
    [][\A name \in Names :
          \A dep \in Dependencies(name) :
             (/\ unload_all.result = "running"
              /\ unload_all.next <= Len(unload_all.order)
              /\ unload_all'.next = unload_all.next + 1
              /\ unload_all.order[unload_all.next] = dep
              /\ \E k \in 1..Len(unload_all.order) :
                    unload_all.order[k] = name)
                => plugins[name] = NoInst]_vars

(* ------------------------- command index and dispatch ------------------ *)

\* the prefixes listed by the command registries
Registered == {reg_prefixes[k] : k \in 1..Len(reg_prefixes)}

ProperPrefix(p1, p2) == p1 # p2 /\ IsPrefix(p1, p2)

\* a step that builds the command index
BuildStep ==
    /\ initialized'
    /\ \/ ~initialized
       \/ <<prefixes, index, init_result>>' # <<prefixes, index, init_result>>

\* the build was rejected with an error that names a conflicting pair, and
\* the new resolver has no index
Rejected ==
    /\ init_result'.kind = "conflict"
    /\ ProperPrefix(init_result'.p1, init_result'.p2)
    /\ {init_result'.p1, init_result'.p2} \subseteq Registered
    /\ index' = {}

\* a step that dispatches a message
MessageStep == delivered' = delivered + 1

\* C23, as stated: the build of the command index is rejected with a
\* prefix-conflict error naming both prefixes whenever one registered
\* prefix is a proper prefix of another registered prefix.
C23_AnyProperPrefixRejected ==
    [][(BuildStep /\ \E p1 \in Registered, p2 \in Registered :
                        ProperPrefix(p1, p2))
          => Rejected]_vars

\* C23, amended: the build of the command index is rejected with a
\* prefix-conflict error naming both prefixes whenever one non-empty
\* registered prefix is a proper prefix of another registered prefix; the
\* empty prefix is dropped before the check and conflicts with nothing.
C23_NonEmptyProperPrefixRejected ==
    [][/\ (BuildStep /\ \E p1 \in Registered \ {<<>>}, p2 \in Registered :
                           ProperPrefix(p1, p2))
             => Rejected
       /\ (BuildStep /\ Registered \subseteq {<<>>, <<"/">>})
             => init_result'.kind = "ok"]_vars

\* the build over the prefixes "/" and "//" of scenario S6 was rejected,
\* naming the two, although a command is registered
C23_Witness ==
    /\ initialized
    /\ init_result = [kind |-> "conflict", p1 |-> <<"/">>,
                      p2 |-> <<"/", "/">>]
    /\ Registered = {<<"/">>, <<"/", "/">>}
    /\ commands # {}
    /\ index = {}

\* C24: after a prefix conflict has been detected, and as long as the
\* conflicting prefixes remain registered, no message handed to
\* handle_message_event triggers a command handler.
C24_NoDispatchWhileConflict ==
    [][(/\ MessageStep
        /\ dispatch'.via = "service"
        /\ init_result'.kind = "conflict"
        /\ {init_result'.p1, init_result'.p2} \subseteq Registered)
          => ~dispatch'.invoked]_vars

\* the second message after the conflict was detected: it names a
\* registered command, its filters allow and its arguments bind, the call
\* raises nothing, and no handler runs
C24_Witness ==
    /\ delivered = 2
    /\ init_result.kind = "conflict"
    /\ {init_result.p1, init_result.p2} \subseteq Registered
    /\ commands # {}
    /\ dispatch.via = "service"
    /\ dispatch.allow /\ dispatch.bindable
    /\ ~dispatch.raised
    /\ ~dispatch.invoked

\* C25: when the arguments of a resolved command cannot be bound, an
\* ncatbot.param_bind_failed event is published, the handler is not
\* invoked, and the dispatch raises nothing.
C25_BindFailurePublished ==
    [][(MessageStep /\ dispatch'.resolved /\ ~dispatch'.bindable)
          => /\ dispatch'.published
             /\ ~dispatch'.invoked
             /\ ~dispatch'.raised]_vars

\* C26: the filter chain is evaluated before the arguments are bound: when
\* the chain denies, no binding-failure event is produced and the handler
\* is not invoked.
C26_DenyBeforeBinding ==
    [][(MessageStep /\ dispatch'.resolved /\ ~dispatch'.allow)
          => /\ ~dispatch'.published
             /\ ~dispatch'.invoked]_vars

(* -------------------------------- back mode ---------------------------- *)

\* C27: run_backend returns the API handle only after the startup-event
\* handler has signalled that startup is complete; while no signal has
\* arrived it can only keep waiting or, when the 90 seconds have passed,
\* raise the startup-timeout error.
C27_ReturnsAfterStartupSignal ==
    [][/\ (main # "returned" /\ main' = "returned")
             => (signals >= 1 /\ api /\ returned_api' /\ ~crash_flag)
       /\ (main = "waiting" /\ signals = 0 /\ ~crash_flag)
             => main' \in {"waiting", "startup_timeout"}]_vars

\* run_backend has returned the API handle after one startup event
C27_Witness ==
    /\ main = "returned"
    /\ returned_api
    /\ signals = 1
    /\ worker = "listening"

\* C28: when start() raises in the worker thread, run_backend raises the
\* startup-failure error: it does not return an API handle once the
\* failure is flagged, and it does not run into the timeout once the
\* worker has handled the failure.
C28_StartupFailureSurfaced ==
    [][/\ (main = "acquired" /\ main' # main /\ crash_flag)
             => main' = "startup_failed"
       /\ (main = "waiting" /\ worker = "crashed")
             => main' \in {"waiting", "acquired"}
       /\ (main # "startup_failed" /\ main' = "startup_failed")
             => crash_flag]_vars

\* start() raised before any startup event (the WebSocket could not be
\* opened) and run_backend raised the startup-failure error
C28_Witness ==
    /\ main = "startup_failed"
    /\ worker = "crashed"
    /\ signals = 0
    /\ ~api
    /\ ~mock_mode

(* ------------------------------ token policy --------------------------- *)

\* C29: a config that has passed fix_invalid_config never has a listener
\* on 0.0.0.0 together with a WS token that fails the strong-password
\* check.
C29_NoWeakTokenOnPublicListener ==
    validation = "passed"
        => ~(ws_listen_ip = "0.0.0.0" /\ ~strong_password_check(ws_token))

(* --------------------------- request isolation ------------------------ *)

\* what the router holds for call d is the same before and after the step
Untouched(d) ==
    /\ pc'[d] = pc[d]
    /\ fut'[d] = fut[d]
    /\ futResult'[d] = futResult[d]
    /\ timedOut'[d] = timedOut[d]
    /\ outcome'[d] = outcome[d]
    /\ echo[d] # NoEcho =>
          pending_futures'[echo[d]] = pending_futures[echo[d]]

\* C37: the write, the timeout and the return of one send() leave the
\* future and the table entry of every other call as they are, and a
\* response frame touches only the call whose echo it carries.
C37_RequestsIsolated ==
    [][/\ \A c \in Calls :
            (\/ send_write(c)
             \/ send_timeout(c)
             \/ (ready # <<>> /\ Head(ready) = c /\ send_wakeup))
               => \A d \in Calls \ {c} : Untouched(d)
       /\ \A data \in Echoes :
            on_message(data)
               => \A d \in Calls : echo[d] # data => Untouched(d)]_vars

\* one call has timed out and another one, written before the first one
\* ended, has returned its own response
C37_Witness ==
    \E a, b \in Calls :
        /\ a # b
        /\ Done(a) /\ outcome[a] = "timeout" /\ echo[a] \in wire
        /\ Done(b) /\ outcome[b] = "response" /\ result[b] = echo[b]
        /\ echo[a] < echo[b]

(* ------------------------- RBAC cache and indexes ---------------------- *)

\* C32: a check answers as the rules evaluated on the current state
\* without the cache do, and every memoised value equals the value
\* computed from the current state.
C32_CacheAgreesWithState ==
    /\ (ret.op = "check" /\ ret.ok)
          => ret.value = Decide(get_effective_permissions(ret.user), ret.perm)
    /\ \A u \in DOMAIN cache : cache[u] = get_effective_permissions(u)

\* a check was allowed through a white-list entry that the user holds by
\* a role, and the value is memoised
C32_Witness ==
    /\ ret.op = "check" /\ ret.ok /\ ret.value
    /\ ret.user \in DOMAIN cache
    /\ users[ret.user].whitelist = {}
    /\ cache[ret.user].whitelist # {}

\* users whose role list names the role
Holders(us, role) == {u \in DOMAIN us : role \in us[u].roles}

\* C33: a remove_role(r) that succeeds leaves r out of the role map, out
\* of every user's role list and out of the inheritance map.
C33_RemoveRoleCascades ==
    [][\A r \in Roles :
          (r \in DOMAIN roles /\ r \notin DOMAIN roles')
             => /\ Holders(users', r) = {}
                /\ \A e \in role_inheritance' : e[1] # r /\ e[2] # r]_vars

\* C40: the role-to-users index and the role lists of the users agree,
\* and every role named in a role list or in the inheritance map exists.
C40_IndexesAgree ==
    /\ DOMAIN role_users = DOMAIN roles
    /\ \A r \in DOMAIN role_users : role_users[r] = Holders(users, r)
    /\ \A u \in DOMAIN users : users[u].roles \subseteq DOMAIN roles
    /\ \A e \in role_inheritance : {e[1], e[2]} \subseteq DOMAIN roles

(* ----------------------------- scheduled tasks ------------------------- *)

\* C31: once unload_plugin has ended for a plugin instance, none of the
\* tasks it added is left in the scheduler, and the latest task function
\* that was called does not belong to an unloaded instance.
C31_UnloadCancelsTasks ==
    /\ \A k \in 1..Len(jobs) : jobs[k].owner \notin unloaded
    /\ last_tick.called => last_tick.owner \notin unloaded

\* C36: a task added with max_runs = n >= 1 (a one-shot task has n = 1)
\* has its function called at most n times, whatever the ticks, the
\* conditions and the outcomes of the function
C36_AtMostMaxRunsCalls ==
    \A k \in 1..Len(jobs) :
        Truthy(jobs[k].max_runs) => jobs[k].called <= jobs[k].max_runs

(* --------------------------- lifecycle claims -------------------------- *)

\* C38: one run_backend call releases the startup lock at most once: when
\* the except branch of run_async releases it, no startup handler has
\* released it before; and crash_flag is set only after start() raised
C38_LockReleasedOnce ==
    [][/\ crash_released => signals = 0
       /\ (~crash_flag /\ crash_flag') => worker = "raised"]_vars

\* C39: the shutdown runs at most once per start: a bot_exit call on a bot
\* that is not running changes nothing, and after one bot_exit has closed
\* the services and unloaded the plugins no later call does so again
C39_ShutdownOnce ==
    /\ shutdowns <= 1
    /\ ~running => (shutdowns = 0 /\ ~status_exit /\ unload_all = NoUnloadAll)

(* ---------------------------- dispatch claims -------------------------- *)

\* C34: a message dispatched after the command registry has changed is
\* resolved against the registry as it is now: when the build of the index
\* has not failed, the command named by the message resolves if and only
\* if it is registered
C34_DispatchUsesCurrentRegistry ==
    [][\A name \in CommandOwners, allow \in BOOLEAN, bindable \in BOOLEAN :
          (/\ handle_message_event(name, allow, bindable)
           /\ init_result'.kind = "ok")
             => dispatch'.resolved = (name \in commands)]_vars

\* C35: an exception raised by a command function, a function filter or
\* their filters never leaves handle_message_event, it is logged, and when
\* the handling has returned every function registered for the message has
\* been run: each one whose filters passed was called, whatever the
\* functions before it did
C35_HandlerErrorsContained ==
    /\ handling # "raised"
    /\ handling = "returned" =>
          \A k \in 1..Len(functions) :
             /\ Enters(functions[k].outcome) <=> k \in called
             /\ Logs(functions[k].outcome) <=> k \in logged

\* a function filter raised, and the function filter after it ran
C35_Witness ==
    /\ handling = "returned"
    /\ \E j, k \in 1..Len(functions) :
          /\ j < k
          /\ ~functions[j].is_command /\ functions[j].outcome = "raises"
          /\ ~functions[k].is_command /\ functions[k].outcome = "returns"
          /\ j \in logged /\ k \in called
====
